---- MODULE Spec2Model ----
(***************************************************************************)
(* A model of the zero2prod newsletter service: the subscription           *)
(* lifecycle (subscribe, confirm), the idempotent publish handler          *)
(* (try_processing, send_email_to_subscribers, save_response), the request *)
(* timeout, and the issue delivery worker (try_execute_task, worker_loop). *)
(*                                                                         *)
(* The relational store is modelled by its committed tables plus, for each *)
(* open transaction, the rows that transaction has written or locked.  The *)
(* email transport is modelled by the log of the requests it received.     *)
(***************************************************************************)
EXTENDS Integers, FiniteSets, Sequences, Bags, TLC

(***************************************************************************)
(* Bounds of the model.                                                    *)
(***************************************************************************)
MaxRequests == 2
MaxSubscribers == 2
NumWorkers == 2

Requests == 1..MaxRequests
SubscriberIds == 1..MaxSubscribers
Workers == 1..NumWorkers

(***************************************************************************)
(* Input domains.                                                          *)
(***************************************************************************)
UserOrder == <<"u1", "u2">>
Users == {UserOrder[i] : i \in DOMAIN UserOrder}
Keys == {"k1"}
Bodies == {[title |-> "t1", content |-> "c1"]}
Addresses == <<"s1@x.io", "s2@x.io", "s3@x.io", "s4@x.io">>
InvalidEmail == "not-an-email"
Names == {"le guin", ""}
IssueIds == {1, 2}

\* SubscriberEmail::parse: the address is kept only if validate_email accepts it.
ValidEmail(s) == \E i \in DOMAIN Addresses : s = Addresses[i]

ValidName_any(s) == TRUE

\* SubscriberName::parse: an empty or whitespace-only name and a name with a
\* forbidden character are rejected.
ValidName(s) == s \notin {"", " ", "<le guin>"}

(***************************************************************************)
(* HTTP responses: a status, the ordered header list and the body.         *)
(***************************************************************************)
FlashCookie == <<"set-cookie", "_flash_=The newsletter issue has been published">>

\* Redirect::to(uri): 303 See Other with a Location header and an empty body.
RedirectTo(uri) == [status |-> 303, headers |-> << <<"location", uri>> >>, body |-> ""]

\* HeaderMap::append.  The headers of a response are listed in the order in
\* which the map is iterated and written: the values of one name follow each
\* other in the order they were appended, a name that is new comes last.
HeaderMap_append(headers, name, value) ==
    LET idx == {i \in 1..Len(headers) : headers[i][1] = name}
    IN  IF idx = {} THEN Append(headers, <<name, value>>)
        ELSE LET last == CHOOSE i \in idx : \A j \in idx : j <= i
             IN  SubSeq(headers, 1, last) \o << <<name, value>> >>
                     \o SubSeq(headers, last + 1, Len(headers))

\* (flash, response).into_response(): the flash cookie is appended to the headers.
WithFlash(resp) ==
    [resp EXCEPT !.headers = HeaderMap_append(@, FlashCookie[1], FlashCookie[2])]

StatusOnly(code) == [status |-> code, headers |-> <<>>, body |-> ""]

NoResponse == StatusOnly(0)

Location(resp) ==
    LET idx == {i \in 1..Len(resp.headers) : resp.headers[i][1] = "location"}
    IN  IF idx = {} THEN "" ELSE resp.headers[CHOOSE i \in idx : \A j \in idx : i <= j][2]

(***************************************************************************)
(* State.                                                                  *)
(***************************************************************************)
VARIABLES
    subscriptions,            \* table subscriptions: sequence of rows, id = index
    subscription_tokens,      \* table subscription_tokens
    idempotency,              \* table idempotency (committed rows)
    newsletter_issues,        \* table newsletter_issues (committed rows)
    issue_delivery_queue,     \* table issue_delivery_queue (committed rows)
    outbox,                   \* bag of requests received by the email transport
    pc,                       \* position of each publish request
    req,                      \* form and user of each publish request
    tx,                       \* idempotency rows inserted by the request's open transaction
    todo,                     \* confirmed subscribers the request still has to iterate over
    snapshot,                 \* result of get_confirmed_subscribers of the request
    next_action,              \* what try_processing returned to the request
    response,                 \* response of each publish request
    enable_background_worker, \* application.enable_background_worker
    wpc,                      \* position of each worker
    wtask,                    \* task claimed (row locked) by each worker
    wsleep,                   \* seconds each worker sleeps before its next iteration
    faults,                   \* infrastructure errors and crashes the workers met so far
    reply,                    \* latest response of /subscriptions, /subscriptions/confirm
                              \* and of the /admin routes other than the publish pipeline
    users,                    \* table users
    session,                  \* data of the browser's session record
    session_id,               \* id of the record the browser's session cookie names, 0 if none
    login_log                 \* the login attempts made and the responses they got

vars == <<subscriptions, subscription_tokens, idempotency, newsletter_issues,
          issue_delivery_queue, outbox, pc, req, tx, todo, snapshot, next_action,
          response, enable_background_worker, wpc, wtask, wsleep, faults, reply, users,
          session, session_id, login_log>>

dbVars == <<subscriptions, subscription_tokens, idempotency, newsletter_issues,
            issue_delivery_queue>>
reqVars == <<pc, req, tx, todo, snapshot, next_action, response>>
workerVars == <<enable_background_worker, wpc, wtask, wsleep, faults>>
loginVars == <<users, session, session_id, login_log>>

NoReq == [user_id |-> "", idempotency_key |-> "", title |-> "", content |-> ""]
NoTask == [newsletter_issue_id |-> 0, subscriber_email |-> ""]

\* One request received by the email transport.  via and sid record which
\* handler sent it and for which subscriber row; ok is the transport's answer.
Message(to, subject, via, sid, ok) ==
    [to |-> to, subject |-> subject, via |-> via, sid |-> sid, ok |-> ok]

\* email_client.send_email: POST {base_url}/email, the transport logs the request.
send_email(box, to, subject, via, sid, ok) ==
    box (+) SetToBag({Message(to, subject, via, sid, ok)})

(***************************************************************************)
(* Subscription lifecycle.                                                 *)
(***************************************************************************)
insert_subscriber_confirmed(table, email, name) ==
    Append(table, [email |-> email, name |-> name, status |-> "confirmed"])

\* insert_subscriber: a new row with a fresh id and status pending_confirmation.
insert_subscriber(table, email, name) ==
    Append(table, [email |-> email, name |-> name, status |-> "pending_confirmation"])

\* store_token: the freshly generated token, pointing at the subscriber.
store_token(table, subscriber_id) ==
    table \cup {[subscription_token |-> subscriber_id, subscriber_id |-> subscriber_id]}

\* An address nobody has subscribed with yet.
FreshAddress == Addresses[Len(subscriptions) + 1]

\* The addresses a new subscriber may type: a fresh valid one, a malformed
\* one, or none.
EmailInputs == {FreshAddress, InvalidEmail, ""}

ValidNames == {name \in Names : ValidName(name)}

\* The names a new subscriber may type.
NameInputs == Names \cup {"ursula", " ", "<le guin>"}

\* (StatusCode, String).into_response(): the text with its content type.
TextResponse(code, text) ==
    [status |-> code,
     headers |-> << <<"content-type", "text/plain; charset=utf-8">> >>,
     body |-> text]

\* NewSubscriber::try_from(FormData): the name is parsed first, then the email.
NewSubscriber_try_from(name, email) ==
    IF ~ValidName(name) THEN "ValidationError(name)"
    ELSE IF ~ValidEmail(email) THEN "ValidationError(email)"
    ELSE "Ok"

\* How a subscribe request with a valid form may end: with success, or with
\* the first step that fails.
SubscribeOutcomes ==
    {"Ok", "PoolError", "InsertSubscriberError", "StoreTokenError",
     "TransactionCommitError", "SendEmailError"}

\* Display for SubscribeError.
SubscribeError_to_string(e) ==
    CASE e = "ValidationError(name)" -> "is not a valid subscriber name."
      [] e = "ValidationError(email)" -> "is not a valid subscriber email."
      [] e = "StoreTokenError" -> "Failed to store the confirmation token for a new subscriber."
      [] e = "SendEmailError" -> "Failed to send a confirmation email."
      [] e = "PoolError" -> "Failed to acquire a Postgres connection from the pool"
      [] e = "InsertSubscriberError" -> "Failed to insert new subscriber in the database."
      [] e = "TransactionCommitError" -> "Failed to commit SQL transaction to store a new subscriber."

SubscribeError_status_bad_request(e) ==
    IF e \in {"ValidationError(name)", "ValidationError(email)"} THEN 400 ELSE 500

\* SubscribeError::into_response, the match on self.
SubscribeError_status(e) ==
    IF e \in {"ValidationError(name)", "ValidationError(email)"} THEN 422 ELSE 500

SubscribeError_into_response(e) ==
    TextResponse(SubscribeError_status(e), SubscribeError_to_string(e))

commits_each_statement(outcome) == outcome \notin {"PoolError", "InsertSubscriberError"}

commits_after_send(outcome) == outcome = "Ok"

\* subscribe: transaction.commit() is reached, and succeeds, when neither
\* pool.begin, insert_subscriber, store_token nor the commit itself failed;
\* on every other path the `?` drops the transaction, which rolls it back.
commits(outcome) == outcome \in {"Ok", "SendEmailError"}

\* subscribe: send_email_confirmation is called after the commit succeeded.
sends_confirmation(outcome) == outcome \in {"Ok", "SendEmailError"}

\* POST /subscriptions.
subscribe(name, email, outcome) ==
    /\ Len(subscriptions) < MaxSubscribers
    /\ LET parsed == NewSubscriber_try_from(name, email)
           subscriber_id == Len(subscriptions) + 1
           inserted == insert_subscriber(subscriptions, email, name)
           stored == IF outcome = "StoreTokenError" THEN subscription_tokens
                     ELSE store_token(subscription_tokens, subscriber_id)
       IN  IF parsed # "Ok"
           THEN /\ reply' = SubscribeError_into_response(parsed)
                /\ UNCHANGED <<subscriptions, subscription_tokens, outbox>>
           ELSE /\ IF commits(outcome)
                   THEN /\ subscriptions' = inserted
                        /\ subscription_tokens' = stored
                   ELSE UNCHANGED <<subscriptions, subscription_tokens>>
                /\ outbox' = IF sends_confirmation(outcome)
                             THEN send_email(outbox, email, "Welcome!",
                                             <<"subscribe", subscriber_id>>, subscriber_id,
                                             outcome = "Ok")
                             ELSE outbox
                /\ reply' = IF outcome = "Ok" THEN StatusOnly(200)
                            ELSE SubscribeError_into_response(outcome)
    /\ UNCHANGED <<idempotency, newsletter_issues, issue_delivery_queue>>
    /\ UNCHANGED reqVars
    /\ UNCHANGED workerVars
    /\ UNCHANGED loginVars

\* get_subscriber_id_from_token.
get_subscriber_id_from_token(token) ==
    {t.subscriber_id : t \in {x \in subscription_tokens : x.subscription_token = token}}

confirm_subscriber_toggle(table, subscriber_id) ==
    [i \in DOMAIN table |->
        IF i = subscriber_id
        THEN [table[i] EXCEPT !.status = IF @ = "confirmed" THEN "pending_confirmation"
                                         ELSE "confirmed"]
        ELSE table[i]]

\* confirm_subscriber: UPDATE subscriptions SET status = 'confirmed' WHERE id = $1.
confirm_subscriber(table, subscriber_id) ==
    [i \in DOMAIN table |->
        IF i = subscriber_id THEN [table[i] EXCEPT !.status = "confirmed"] ELSE table[i]]

ConfirmError_status_not_found(e) ==
    IF e = "SubscriberNotFoundForToken" THEN 404 ELSE 500

\* ConfirmError::into_response, the match on self.
ConfirmError_status(e) ==
    IF e = "SubscriberNotFoundForToken" THEN 401 ELSE 500

ConfirmError_into_response(e) ==
    TextResponse(ConfirmError_status(e), "Subscriber not found for token")

\* The tokens of the confirmation links that were mailed.
IssuedTokens == {t.subscription_token : t \in subscription_tokens}

\* The tokens a confirmation link may carry: the ones issued so far, the one
\* that would be issued next, and one that is never issued.
TokenInputs == 0..MaxSubscribers

\* GET /subscriptions/confirm.
confirm(token) ==
    /\ LET found == get_subscriber_id_from_token(token)
       IN  IF found = {}
           THEN /\ reply' = ConfirmError_into_response("SubscriberNotFoundForToken")
                /\ UNCHANGED subscriptions
           ELSE /\ subscriptions' = confirm_subscriber(subscriptions, CHOOSE x \in found : TRUE)
                /\ reply' = StatusOnly(200)
    /\ UNCHANGED <<subscription_tokens, idempotency, newsletter_issues,
                   issue_delivery_queue, outbox>>
    /\ UNCHANGED reqVars
    /\ UNCHANGED workerVars
    /\ UNCHANGED loginVars

(***************************************************************************)
(* Idempotency layer.                                                      *)
(***************************************************************************)
\* NULL in the nullable response columns of an idempotency row.
NullStatus == 0

\* The row try_processing inserts: only the key columns are populated.
KeyRow(user_id, key) ==
    [user_id |-> user_id, idempotency_key |-> key,
     response_status_code |-> NullStatus, response_headers |-> <<>>, response_body |-> ""]

RowsOf_any_user(rows, user_id, key) ==
    {x \in rows : x.idempotency_key = key}

\* WHERE user_id = $1 AND idempotency_key = $2, and the primary key of the
\* INSERT: the rows of the user with the key.
RowsOf(rows, user_id, key) ==
    {x \in rows : x.user_id = user_id /\ x.idempotency_key = key}

InFlightRows_not_awaited(r, user_id, key) == {}

\* Rows of (user_id, key) that open transactions of other requests have
\* inserted and not yet committed or rolled back.
InFlightRows(r, user_id, key) ==
    UNION {RowsOf(tx[q], user_id, key) : q \in Requests \ {r}}

\* INSERT INTO idempotency ... ON CONFLICT DO NOTHING, rows_affected().
n_inserted_rows(rows, user_id, key) ==
    IF RowsOf(rows, user_id, key) = {} THEN 1 ELSE 0

starts_processing_always(n) == n >= 0

\* try_processing: if n_inserted_rows > 0 then StartProcessing else ReturnSavedResponse.
starts_processing(n) == n > 0

\* get_saved_response, the loop over r.response_headers: every stored pair is
\* appended to the headers of the response.
RECURSIVE headers_from_records(_)
headers_from_records(records) ==
    IF records = <<>> THEN <<>>
    ELSE LET n == Len(records)
         IN  HeaderMap_append(headers_from_records(SubSeq(records, 1, n - 1)),
                              records[n][1], records[n][2])

\* A header value with bytes outside visible ASCII.
OpaqueValue == "\\xff"

\* HeaderValue::to_str fails on a value that is not visible ASCII.
to_str_fails(value) == value = OpaqueValue

RECURSIVE first_values(_)
first_values(headers) ==
    IF headers = <<>> THEN <<>>
    ELSE LET n == Len(headers)
             front == first_values(SubSeq(headers, 1, n - 1))
         IN  IF \E i \in 1..(n - 1) : headers[i][1] = headers[n][1]
             THEN front ELSE Append(front, headers[n])

header_pair_records_by_key(headers) ==
    IF \E i \in 1..Len(headers) : to_str_fails(headers[i][2])
    THEN [ok |-> FALSE, records |-> <<>>]
    ELSE [ok |-> TRUE, records |-> first_values(headers)]

\* save_response, the loop over response_head.headers.iter(): the pairs in
\* iteration order; it fails if to_str fails on a value.
header_pair_records(headers) ==
    IF \E i \in 1..Len(headers) : to_str_fails(headers[i][2])
    THEN [ok |-> FALSE, records |-> <<>>]
    ELSE [ok |-> TRUE, records |-> headers]

\* save_response: response_head.status.as_u16() as i16.
as_i16(code) ==
    LET low == code % 65536
    IN  IF low >= 32768 THEN low - 65536 ELSE low

\* get_saved_response: StatusCode::from_u16(code.try_into()?) accepts 100..=999.
valid_status_code(code) == code >= 100 /\ code <= 999

get_saved_response_with_defaults(rows, user_id, key) ==
    {[status |-> IF x.response_status_code = NullStatus THEN 200 ELSE x.response_status_code,
      headers |-> headers_from_records(x.response_headers),
      body |-> x.response_body] : x \in RowsOf(rows, user_id, key)}

\* get_saved_response: the columns of the row as a response; a row whose
\* response columns are NULL cannot be decoded ("response_status_code!").
get_saved_response(rows, user_id, key) ==
    {[status |-> x.response_status_code,
      headers |-> headers_from_records(x.response_headers),
      body |-> x.response_body] :
        x \in {y \in RowsOf(rows, user_id, key) :
                  y.response_status_code # NullStatus
                      /\ valid_status_code(y.response_status_code)}}

save_response_key_only(rows, own, user_id, key, resp) == rows \cup own

\* save_response: UPDATE idempotency SET response_* WHERE user_id, key; commit.
\* The statement sees the committed rows and the rows of its own transaction.
save_response(rows, own, user_id, key, resp) ==
    {IF x.user_id = user_id /\ x.idempotency_key = key
     THEN [x EXCEPT !.response_status_code = as_i16(resp.status),
                    !.response_headers = header_pair_records(resp.headers).records,
                    !.response_body = resp.body]
     ELSE x : x \in rows \cup own}

keep_transaction(own) == own

\* Dropping a Transaction that was not committed rolls it back.
rollback(own) == {}

(***************************************************************************)
(* Publish pipeline: POST /admin/newsletters.                              *)
(***************************************************************************)
InFlight == {"try_processing", "get_confirmed_subscribers", "send_email"}

\* The users a new request may come from: one that has published before, or
\* the next one that has not (users that have not published are interchangeable).
UserInputs ==
    LET seen == {req[q].user_id : q \in {x \in Requests : pc[x] # "init"}}
    IN  seen \cup (IF seen = Users THEN {} ELSE {UserOrder[Cardinality(seen) + 1]})

\* The longest idempotency key that is accepted.
MaxKeyLength == 64

\* IdempotencyKey::try_from(String): the key must not be empty and must not be
\* longer than the maximum.
ValidIdempotencyKey(key) == key # "" /\ Len(key) <= MaxKeyLength

\* The keys a form may carry: a usual one, none, the longest one that is
\* accepted and the shortest one that is too long.
LongestKey == "kkkkkkkkkkkkkkkkkkkkkkkkkkkkkkkkkkkkkkkkkkkkkkkkkkkkkkkkkkkkkkkk"
TooLongKey == "kkkkkkkkkkkkkkkkkkkkkkkkkkkkkkkkkkkkkkkkkkkkkkkkkkkkkkkkkkkkkkkkk"
KeyInputs == Keys \cup {"", LongestKey, TooLongKey}

\* BodyData as the form of a request delivers it.
BodyData(title, content, idempotency_key) ==
    [title |-> title, content |-> content, idempotency_key |-> idempotency_key]

\* A form that lacks the field idempotency_key.
BodyWithoutKey(title, content) == [title |-> title, content |-> content]

PublishForms(keys) ==
    {BodyData(b.title, b.content, k) : b \in Bodies, k \in keys}

\* Form<BodyData>: a body that does not deserialize into BodyData is rejected
\* by the extractor with 422 Unprocessable Entity, before the handler runs.
FormRejection_status == 422

\* POST /admin/newsletters from an authorized user: the extractors and the
\* conversion of the key.  A request whose form or key is rejected ends here.
publish_newsletter(r, user_id, form) ==
    /\ pc[r] = "init"
    /\ \A q \in Requests : q < r => pc[q] # "init"
    /\ LET has_key == "idempotency_key" \in DOMAIN form
           key == IF has_key THEN form.idempotency_key ELSE ""
       IN  /\ req' = [req EXCEPT ![r] = [user_id |-> user_id, idempotency_key |-> key,
                                         title |-> form.title, content |-> form.content]]
           /\ IF ~has_key
              THEN /\ pc' = [pc EXCEPT ![r] = "done"]
                   /\ response' = [response EXCEPT ![r] =
                          TextResponse(FormRejection_status,
                                       "Failed to deserialize form body")]
              ELSE IF ~ValidIdempotencyKey(key)
              THEN /\ pc' = [pc EXCEPT ![r] = "done"]
                   /\ response' = [response EXCEPT ![r] = StatusOnly(400)]
              ELSE /\ pc' = [pc EXCEPT ![r] = "try_processing"]
                   /\ UNCHANGED response
    /\ UNCHANGED <<tx, todo, snapshot, next_action, outbox>>
    /\ UNCHANGED dbVars
    /\ UNCHANGED workerVars
    /\ UNCHANGED loginVars
    /\ UNCHANGED reply

\* try_processing and the match on its result.  The INSERT waits while another
\* transaction holds an uncommitted row with the same primary key.  When the
\* INSERT did nothing and no response can be read, try_processing returns an
\* error and the handler answers 500 (UnableToGetSavedResponse).
try_processing(r) ==
    /\ pc[r] = "try_processing"
    /\ InFlightRows(r, req[r].user_id, req[r].idempotency_key) = {}
    /\ LET user_id == req[r].user_id
           key == req[r].idempotency_key
           n == n_inserted_rows(idempotency, user_id, key)
           saved == get_saved_response(idempotency, user_id, key)
       IN  IF starts_processing(n)
           THEN /\ tx' = [tx EXCEPT ![r] = IF n > 0 THEN {KeyRow(user_id, key)} ELSE {}]
                /\ next_action' = [next_action EXCEPT ![r] = "StartProcessing"]
                /\ pc' = [pc EXCEPT ![r] = "get_confirmed_subscribers"]
                /\ UNCHANGED response
           ELSE /\ tx' = [tx EXCEPT ![r] = rollback(tx[r])]
                /\ next_action' = [next_action EXCEPT ![r] =
                        IF saved = {} THEN "Err" ELSE "ReturnSavedResponse"]
                /\ pc' = [pc EXCEPT ![r] = "done"]
                /\ response' = [response EXCEPT ![r] =
                        IF saved = {} THEN StatusOnly(500)
                        ELSE WithFlash(CHOOSE x \in saved : TRUE)]
    /\ UNCHANGED <<req, todo, snapshot, outbox>>
    /\ UNCHANGED dbVars
    /\ UNCHANGED workerVars
    /\ UNCHANGED loginVars
    /\ UNCHANGED reply

select_all_subscribers(table) == DOMAIN table

\* get_confirmed_subscribers: SELECT email FROM subscriptions WHERE status = 'confirmed',
\* run on the pool (it sees the committed rows).
select_confirmed_subscribers(table) ==
    {i \in DOMAIN table : table[i].status = "confirmed"}

get_confirmed_subscribers(r) ==
    /\ pc[r] = "get_confirmed_subscribers"
    /\ snapshot' = [snapshot EXCEPT ![r] = select_confirmed_subscribers(subscriptions)]
    /\ todo' = [todo EXCEPT ![r] = select_confirmed_subscribers(subscriptions)]
    /\ pc' = [pc EXCEPT ![r] = "send_email"]
    /\ UNCHANGED <<req, tx, next_action, response, outbox>>
    /\ UNCHANGED dbVars
    /\ UNCHANGED workerVars
    /\ UNCHANGED loginVars
    /\ UNCHANGED reply

\* One iteration of the loop of send_email_to_subscribers.  A row whose email
\* does not parse is skipped; a failed send ends the request with 500 and the
\* transaction of try_processing is dropped.
send_email_to_subscribers(r, s, ok) ==
    /\ pc[r] = "send_email"
    /\ s \in todo[r]
    /\ todo' = [todo EXCEPT ![r] = @ \ {s}]
    /\ IF ValidEmail(subscriptions[s].email)
       THEN /\ outbox' = send_email(outbox, subscriptions[s].email, req[r].title,
                                    <<"publish", r>>, s, ok)
            /\ IF ok
               THEN UNCHANGED <<pc, response, tx>>
               ELSE /\ pc' = [pc EXCEPT ![r] = "done"]
                    /\ response' = [response EXCEPT ![r] = StatusOnly(500)]
                    /\ tx' = [tx EXCEPT ![r] = rollback(tx[r])]
       ELSE UNCHANGED <<outbox, pc, response, tx>>
    /\ UNCHANGED <<req, snapshot, next_action>>
    /\ UNCHANGED dbVars
    /\ UNCHANGED workerVars
    /\ UNCHANGED loginVars
    /\ UNCHANGED reply

\* The loop is over: build the response, save_response (UPDATE and commit).
finish_publish(r) ==
    /\ pc[r] = "send_email"
    /\ todo[r] = {}
    /\ LET resp == WithFlash(RedirectTo("/admin/newsletters"))
       IN  /\ idempotency' = save_response(idempotency, tx[r], req[r].user_id,
                                           req[r].idempotency_key, resp)
           /\ response' = [response EXCEPT ![r] = resp]
    /\ tx' = [tx EXCEPT ![r] = {}]
    /\ pc' = [pc EXCEPT ![r] = "done"]
    /\ UNCHANGED <<req, todo, snapshot, next_action, outbox>>
    /\ UNCHANGED <<subscriptions, subscription_tokens, newsletter_issues,
                   issue_delivery_queue>>
    /\ UNCHANGED workerVars
    /\ UNCHANGED loginVars
    /\ UNCHANGED reply

\* TimeoutLayer (10 s): the handler's future is dropped at an await point and
\* the client gets 408; a transaction the handler held is dropped with it.
request_timeout(r) ==
    /\ pc[r] \in InFlight
    /\ pc' = [pc EXCEPT ![r] = "done"]
    /\ response' = [response EXCEPT ![r] = StatusOnly(408)]
    /\ tx' = [tx EXCEPT ![r] = rollback(tx[r])]
    /\ UNCHANGED <<req, todo, snapshot, next_action, outbox>>
    /\ UNCHANGED dbVars
    /\ UNCHANGED workerVars
    /\ UNCHANGED loginVars
    /\ UNCHANGED reply

(***************************************************************************)
(* Login: POST /login.                                                     *)
(***************************************************************************)
MaxLogins == 2

Usernames == {"admin", "editor", "ghost"}

\* The password behind the constant fallback hash of validate_credentials.
FallbackPassword == "fallback-pw"

Passwords == {"admin-pw-0001", "editor-pw-0001", "wrong-pw-0001", FallbackPassword}

\* Password::compute_password_hash: a PHC string (Argon2id) of the password;
\* the salt is left out, the hash verifies exactly the password it was made of.
compute_password_hash(password) == <<"$argon2id$v=19$m=15000,t=2,p=1", password>>

\* validate_credentials, the initial value of expected_password_hash.
FallbackHash == compute_password_hash(FallbackPassword)

\* The users the deployment was seeded with.
SeedUsers ==
    {[user_id |-> "u1", username |-> "admin",
      password_hash |-> compute_password_hash("admin-pw-0001")],
     [user_id |-> "u2", username |-> "editor",
      password_hash |-> compute_password_hash("editor-pw-0001")]}

verify_password_hash_any_format(expected_password_hash, password_candidate) ==
    IF expected_password_hash[2] = password_candidate THEN "Ok" ELSE "InvalidPassword"

\* verify_password_hash: PasswordHash::new, then Argon2::verify_password.
verify_password_hash(expected_password_hash, password_candidate) ==
    IF expected_password_hash[1] # "$argon2id$v=19$m=15000,t=2,p=1"
    THEN "FailedToGetExpectedHash"
    ELSE IF expected_password_hash[2] = password_candidate THEN "Ok" ELSE "InvalidPassword"

\* get_stored_credentials: SELECT user_id, password_hash FROM users WHERE username = $1.
get_stored_credentials(table, username) == {u \in table : u.username = username}

UnknownUser == [user_id |-> "", username |-> "", password_hash |-> FallbackHash]

\* One step a call executes, with the parameters its cost depends on.
Step(name, params) == [name |-> name, params |-> params]

\* The steps of verify_password_hash: PasswordHash::new parses the PHC string,
\* Argon2::verify_password hashes the candidate with the parameters of the
\* expected hash; the candidate is not hashed if the string does not parse.
verify_password_hash_steps(expected_password_hash) ==
    IF expected_password_hash[1] # "$argon2id$v=19$m=15000,t=2,p=1"
    THEN <<Step("PasswordHash::new", "")>>
    ELSE <<Step("PasswordHash::new", ""),
           Step("Argon2::verify_password", expected_password_hash[1])>>

validate_credentials_steps_known_only(table, username, db_ok) ==
    LET stored == get_stored_credentials(table, username)
    IN  IF ~db_ok \/ stored = {}
        THEN <<Step("get_stored_credentials", "")>>
        ELSE <<Step("get_stored_credentials", "")>>
                 \o verify_password_hash_steps((CHOOSE u \in stored : TRUE).password_hash)

\* The steps of Credentials::validate_credentials: a failed lookup returns
\* through `?`; otherwise the hash that was found, or else the fallback hash,
\* is verified.
validate_credentials_steps(table, username, db_ok) ==
    IF ~db_ok THEN <<Step("get_stored_credentials", "")>>
    ELSE LET stored == get_stored_credentials(table, username)
             row == IF stored = {} THEN UnknownUser ELSE CHOOSE u \in stored : TRUE
         IN  <<Step("get_stored_credentials", "")>>
                 \o verify_password_hash_steps(row.password_hash)

\* Credentials::validate_credentials: "Ok" with the user id, or the error.
\* The hash is verified whether or not the username was found.
validate_credentials(table, username, password, db_ok) ==
    IF ~db_ok THEN [result |-> "DbError", user_id |-> ""]
    ELSE LET stored == get_stored_credentials(table, username)
             row == IF stored = {} THEN UnknownUser ELSE CHOOSE u \in stored : TRUE
             verified == verify_password_hash(row.password_hash, password)
         IN  IF verified # "Ok" THEN [result |-> verified, user_id |-> ""]
             ELSE IF stored = {} THEN [result |-> "UnknownUsername", user_id |-> ""]
             ELSE [result |-> "Ok", user_id |-> row.user_id]

map_err_reveals_username(e) ==
    IF e = "InvalidPassword" THEN "AuthError" ELSE "Unexpected"

\* login, the map_err on the result of validate_credentials.
map_err(e) ==
    IF e \in {"UnknownUsername", "InvalidPassword"} THEN "AuthError" ELSE "Unexpected"

\* Display for LoginError.
LoginError_to_string(e) ==
    IF e = "AuthError" THEN "Authentication failed" ELSE "Unexpected error"

\* Cookie::build("_flash_", message): the Set-Cookie header of a flash message.
flash_cookie(message) ==
    <<"set-cookie",
      CASE message = "Authentication failed" -> "_flash_=Authentication failed"
        [] message = "Unexpected error" -> "_flash_=Unexpected error">>

\* login_redirect: (flash_message.set_message(e.to_string()), Redirect::to("/login")).
login_redirect(e) ==
    LET cookie == flash_cookie(LoginError_to_string(e))
    IN  [RedirectTo("/login") EXCEPT !.headers = HeaderMap_append(@, cookie[1], cookie[2])]

NoSession == {}

\* Session::regenerate: self.0.clear().
regenerate(data) == {}

\* Session::insert_user_id: self.0.insert("user_id", user_id).
insert_user_id(data, user_id) ==
    {kv \in data : kv[1] # "user_id"} \cup {<<"user_id", user_id>>}

\* SessionManagerLayer, after the handler: a session that was modified is
\* saved; it keeps its id if it has a record, else a record with a fresh id
\* is created and the response sets the session cookie.
save_session(id, fresh) == IF id # 0 THEN id ELSE fresh

login_steps_regenerate_on_failure(validated) ==
    IF validated.result = "Ok"
    THEN <<Step("Session::regenerate", <<>>),
           Step("Session::insert_user_id", <<validated.user_id>>),
           Step("Response", <<303, "/admin/dashboard">>)>>
    ELSE <<Step("Session::regenerate", <<>>),
           Step("login_redirect", <<map_err(validated.result)>>)>>

login_steps_insert_first(validated) ==
    IF validated.result = "Ok"
    THEN <<Step("Session::insert_user_id", <<validated.user_id>>),
           Step("Session::regenerate", <<>>),
           Step("Response", <<303, "/admin/dashboard">>)>>
    ELSE <<Step("login_redirect", <<map_err(validated.result)>>)>>

\* login, after validate_credentials has returned: what the handler calls, in
\* the order of the code.
login_steps(validated) ==
    IF validated.result = "Ok"
    THEN <<Step("Session::regenerate", <<>>),
           Step("Session::insert_user_id", <<validated.user_id>>),
           Step("Response", <<303, "/admin/dashboard">>)>>
    ELSE <<Step("login_redirect", <<map_err(validated.result)>>)>>

\* The session after the calls of the steps, made in their order.
RECURSIVE apply_session_steps(_, _)
apply_session_steps(data, steps) ==
    IF steps = <<>> THEN data
    ELSE LET n == Len(steps)
             before == apply_session_steps(data, SubSeq(steps, 1, n - 1))
         IN  CASE steps[n].name = "Session::regenerate" -> regenerate(before)
               [] steps[n].name = "Session::insert_user_id" ->
                      insert_user_id(before, steps[n].params[1])
               [] OTHER -> before

\* POST /login.
login(username, password, db_ok) ==
    /\ Len(login_log) < MaxLogins
    /\ LET validated == validate_credentials(users, username, password, db_ok)
           resp == IF validated.result = "Ok"
                   THEN RedirectTo("/admin/dashboard")
                   ELSE login_redirect(map_err(validated.result))
       IN  /\ session' = apply_session_steps(session, login_steps(validated))
           /\ session_id' = IF validated.result = "Ok"
                            THEN save_session(session_id, Len(login_log) + 1)
                            ELSE session_id
           /\ login_log' = Append(login_log,
                  [username |-> username, password |-> password, db_ok |-> db_ok,
                   steps |-> validate_credentials_steps(users, username, db_ok),
                   trace |-> validate_credentials_steps(users, username, db_ok)
                                \o login_steps(validated),
                   response |-> resp])
    /\ UNCHANGED users
    /\ UNCHANGED reply
    /\ UNCHANGED dbVars
    /\ UNCHANGED reqVars
    /\ UNCHANGED workerVars
    /\ UNCHANGED outbox

(***************************************************************************)
(* The /admin routes behind the login requirement.                         *)
(***************************************************************************)
\* The session ids a request may present: none, or an id that a login issued.
SessionIdInputs == 0..MaxLogins

\* The data of the session of a request: the record its cookie names, or an
\* empty session if there is no such record.
session_data(sid) == IF sid # 0 /\ sid = session_id THEN session ELSE NoSession

\* Session::get_user_id.
get_user_id(data) == {kv[2] : kv \in {x \in data : x[1] = "user_id"}}

\* get_username: SELECT username FROM users WHERE user_id = $1.
get_username(table, user_id) == {u.username : u \in {x \in table : x.user_id = user_id}}

\* AuthorizedUser::from_request_parts: the user of the session, or the error.
AuthorizedUser(table, data) ==
    LET ids == get_user_id(data)
        names == UNION {get_username(table, id) : id \in ids}
    IN  IF ids = {} THEN [result |-> "NotLoggedIn", user_id |-> "", username |-> ""]
        ELSE IF names = {} THEN [result |-> "Unexpected", user_id |-> "", username |-> ""]
        ELSE [result |-> "Ok", user_id |-> CHOOSE id \in ids : TRUE,
              username |-> CHOOSE name \in names : TRUE]

\* AuthorizedUserError::into_response.
AuthorizedUserError_into_response(e) ==
    IF e = "NotLoggedIn" THEN RedirectTo("/login") ELSE StatusOnly(500)

\* The routes of admin::create_router.
AdminRoutes ==
    {"GET /admin/dashboard", "GET /admin/password", "POST /admin/password",
     "POST /admin/logout", "POST /admin/newsletters"}

ProtectedRoutes_handlers_only ==
    {"GET /admin/password", "POST /admin/password", "POST /admin/newsletters"}

\* build_router: route_layer(from_extractor_with_state::<AuthorizedUser, _>) is
\* put on every route of the admin router.
ProtectedRoutes == AdminRoutes

\* FlashMessage::set_message_with_name: the Set-Cookie header of the message.
set_message_with_name(name, message) == <<"set-cookie", "_flash_" \o name \o "=" \o message>>

\* (flash, Redirect::to(uri)).into_response().
FlashRedirect(uri, name, message) ==
    LET cookie == set_message_with_name(name, message)
    IN  [RedirectTo(uri) EXCEPT !.headers = HeaderMap_append(@, cookie[1], cookie[2])]

\* A response with an HTML body.
Html(text) ==
    [status |-> 200, headers |-> << <<"content-type", "text/html">> >>, body |-> text]

\* The request does not reach the handler: the layer answers with the rejection.
rejected(e) ==
    /\ reply' = AuthorizedUserError_into_response(e)
    /\ UNCHANGED <<dbVars, reqVars, workerVars, loginVars, outbox>>

\* What the login requirement lets through: the user of the session on a
\* protected route; on a route without the layer the handler reads the session.
require_login(route, sid) ==
    LET user == AuthorizedUser(users, session_data(sid))
    IN  IF route \in ProtectedRoutes \/ user.result = "Ok" THEN user
        ELSE [result |-> "Handler", user_id |-> "", username |-> ""]

\* GET /admin/dashboard.  The handler has no branch for a session without a
\* user id (todo!()): without the layer it would panic and nothing is answered.
admin_dashboard(sid) ==
    LET user == require_login("GET /admin/dashboard", sid)
    IN  IF user.result = "Handler"
        THEN /\ reply' = NoResponse
             /\ UNCHANGED <<dbVars, reqVars, workerVars, loginVars, outbox>>
        ELSE IF user.result # "Ok" THEN rejected(user.result)
        ELSE /\ reply' = Html("Welcome " \o user.username)
             /\ UNCHANGED <<dbVars, reqVars, workerVars, loginVars, outbox>>

\* GET /admin/password.
change_password_form(sid) ==
    LET user == require_login("GET /admin/password", sid)
    IN  IF user.result # "Ok" THEN rejected(user.result)
        ELSE /\ reply' = Html("Change password")
             /\ UNCHANGED <<dbVars, reqVars, workerVars, loginVars, outbox>>

\* Session::log_out: self.0.delete(), the record is removed from the store and
\* the session cookie from the browser.
Session_log_out(data) == NoSession

log_out_keeps_record(sid) ==
    /\ reply' = FlashRedirect("/login", "", "You have successfully logged out.")
    /\ UNCHANGED <<session, session_id>>

\* log_out, the handler.
log_out_handler(sid) ==
    /\ reply' = FlashRedirect("/login", "", "You have successfully logged out.")
    /\ session' = Session_log_out(session)
    /\ session_id' = 0

\* POST /admin/logout.
log_out(sid) ==
    LET user == require_login("POST /admin/logout", sid)
    IN  IF user.result = "Handler"
        THEN /\ reply' = FlashRedirect("/login", "", "You have successfully logged out.")
             /\ UNCHANGED <<dbVars, reqVars, workerVars, loginVars, outbox>>
        ELSE IF user.result # "Ok" THEN rejected(user.result)
        ELSE /\ log_out_handler(sid)
             /\ UNCHANGED <<users, login_log>>
             /\ UNCHANGED <<dbVars, reqVars, workerVars, outbox>>

\* The limits on the byte length of a password.
MIN_LENGTH == 12
MAX_LENGTH == 128

\* A password of n bytes (ASCII, one byte per character).
RECURSIVE PasswordOfLength(_)
PasswordOfLength(n) ==
    IF n = 0 THEN ""
    ELSE LET half == PasswordOfLength(n \div 2)
         IN  half \o half \o (IF n % 2 = 1 THEN "p" ELSE "")

\* password_candidate.expose_secret().len().
len(password) == Len(password)

verify_password_requirements_exclusive(password_candidate) ==
    (IF len(password_candidate) <= MIN_LENGTH THEN <<"TooShort">> ELSE <<>>)
        \o (IF len(password_candidate) >= MAX_LENGTH THEN <<"TooLong">> ELSE <<>>)

\* Password::verify_password_requirements: the errors that were pushed; the
\* candidate is accepted when there are none.
verify_password_requirements(password_candidate) ==
    (IF len(password_candidate) < MIN_LENGTH THEN <<"TooShort">> ELSE <<>>)
        \o (IF len(password_candidate) > MAX_LENGTH THEN <<"TooLong">> ELSE <<>>)

\* Display for PasswordRequirementError.
PasswordRequirementError_to_string(e) ==
    IF e = "TooShort" THEN "Password must be at least 12 characters long"
    ELSE "Password cannot be longer than 128"

\* missing_requirements.iter().map(|e| e.to_string()).collect().join(",").
RECURSIVE join(_)
join(errors) ==
    IF errors = <<>> THEN ""
    ELSE IF Len(errors) = 1 THEN PasswordRequirementError_to_string(errors[1])
    ELSE PasswordRequirementError_to_string(errors[1]) \o "," \o join(Tail(errors))

change_password_no_update(table, user_id, password) == table

\* authorization::change_password: UPDATE users SET password_hash = $1 WHERE user_id = $2.
change_password(table, user_id, password) ==
    {IF u.user_id = user_id
     THEN [u EXCEPT !.password_hash = compute_password_hash(password)]
     ELSE u : u \in table}

\* ChangePasswordError::into_response.
ChangePasswordError_into_response(e, errors) ==
    CASE e = "Unexpected" -> StatusOnly(500)
      [] e = "PasswordRequirementsNotSatisfied" ->
            FlashRedirect("/admin/password", "password_requirements", join(errors))
      [] e = "NewPasswordNotMatching" ->
            FlashRedirect("/admin/password", "",
                "You entered two different new passwords - the field values must match.")
      [] e = "InvalidPassword" ->
            FlashRedirect("/admin/password", "", "The current password is incorrect.")

change_password_result_late_match(table, user, current_password, new_password, new_password_check) ==
    LET validated == validate_credentials(table, user.username, current_password, TRUE)
    IN  IF verify_password_requirements(new_password) # <<>>
        THEN "PasswordRequirementsNotSatisfied"
        ELSE IF validated.result = "InvalidPassword" THEN "InvalidPassword"
        ELSE IF validated.result # "Ok" THEN "Unexpected"
        ELSE "Ok"

\* change_password, the handler: the first check that fails decides the error.
change_password_result(table, user, current_password, new_password, new_password_check) ==
    LET validated == validate_credentials(table, user.username, current_password, TRUE)
    IN  IF new_password # new_password_check THEN "NewPasswordNotMatching"
        ELSE IF validated.result = "InvalidPassword" THEN "InvalidPassword"
        ELSE IF validated.result # "Ok" THEN "Unexpected"
        ELSE IF verify_password_requirements(new_password) # <<>>
        THEN "PasswordRequirementsNotSatisfied"
        ELSE "Ok"

\* POST /admin/password.
admin_change_password(sid, current_password, new_password, new_password_check) ==
    LET user == require_login("POST /admin/password", sid)
        result == change_password_result(users, user, current_password, new_password,
                                         new_password_check)
    IN  IF user.result # "Ok" THEN rejected(user.result)
        ELSE /\ IF result = "Ok"
                THEN /\ users' = change_password(users, user.user_id, new_password)
                     /\ reply' = FlashRedirect("/admin/password", "",
                                               "Your password has been changed.")
                ELSE /\ reply' = ChangePasswordError_into_response(
                                     result, verify_password_requirements(new_password))
                     /\ UNCHANGED users
             /\ UNCHANGED <<session, session_id, login_log>>
             /\ UNCHANGED <<dbVars, reqVars, workerVars, outbox>>

\* POST /admin/newsletters.
admin_publish_newsletter(sid, r, form) ==
    LET user == require_login("POST /admin/newsletters", sid)
    IN  IF user.result # "Ok"
        THEN /\ pc[r] = "init"
             /\ rejected(user.result)
        ELSE publish_newsletter(r, user.user_id, form)

(***************************************************************************)
(* The API on a freshly migrated database.                                 *)
(***************************************************************************)
Init ==
    /\ subscriptions = <<>>
    /\ subscription_tokens = {}
    /\ idempotency = {}
    /\ newsletter_issues = {}
    /\ issue_delivery_queue = {}
    /\ outbox = EmptyBag
    /\ pc = [r \in Requests |-> "init"]
    /\ req = [r \in Requests |-> NoReq]
    /\ tx = [r \in Requests |-> {}]
    /\ todo = [r \in Requests |-> {}]
    /\ snapshot = [r \in Requests |-> {}]
    /\ next_action = [r \in Requests |-> "none"]
    /\ response = [r \in Requests |-> NoResponse]
    /\ enable_background_worker = FALSE
    /\ wpc = [w \in Workers |-> "dequeue"]
    /\ wtask = [w \in Workers |-> NoTask]
    /\ wsleep = [w \in Workers |-> 0]
    /\ faults = 0
    /\ reply = NoResponse
    /\ users = SeedUsers
    /\ session = NoSession
    /\ session_id = 0
    /\ login_log = <<>>

Next ==
    \/ \E name \in ValidNames : subscribe(name, FreshAddress, "Ok")
    \/ \E token \in IssuedTokens : confirm(token)
    \/ \E r \in Requests, u \in UserInputs, f \in PublishForms(Keys) : publish_newsletter(r, u, f)
    \/ \E r \in Requests : try_processing(r)
    \/ \E r \in Requests : get_confirmed_subscribers(r)
    \/ \E r \in Requests, s \in SubscriberIds, ok \in BOOLEAN : send_email_to_subscribers(r, s, ok)
    \/ \E r \in Requests : finish_publish(r)
    \/ \E r \in Requests : request_timeout(r)

Spec == Init /\ [][Next]_vars

(***************************************************************************)
(* The idempotency store alone: save_response applied to a response, then  *)
(* get_saved_response for the same user and key.                           *)
(***************************************************************************)
MaxHeaders == 3

HeaderNames == {"location", "set-cookie"}
HeaderValues == {"/admin/newsletters", "a=1", OpaqueValue}
StatusCodes == {200, 303}
BodyInputs == {"", "<html>"}

\* The (name, value) pairs a handler may add to a response, in any order.
HeaderInputs == UNION {[1..n -> HeaderNames \X HeaderValues] : n \in 0..MaxHeaders}

\* Response::builder().status(code).header(..).header(..).body(body).
ResponseInputs ==
    {[status |-> code, headers |-> headers_from_records(pairs), body |-> body] :
        code \in StatusCodes, pairs \in HeaderInputs, body \in BodyInputs}

\* save_response applied to the response the request built.  If a header
\* value cannot be stored the function returns early, the transaction is
\* dropped and the handler answers 500.
call_save_response(r) ==
    /\ pc[r] = "save_response"
    /\ IF header_pair_records(response[r].headers).ok
       THEN /\ idempotency' = save_response(idempotency, tx[r], req[r].user_id,
                                            req[r].idempotency_key, response[r])
            /\ tx' = [tx EXCEPT ![r] = {}]
            /\ UNCHANGED response
       ELSE /\ tx' = [tx EXCEPT ![r] = rollback(tx[r])]
            /\ response' = [response EXCEPT ![r] = StatusOnly(500)]
            /\ UNCHANGED idempotency
    /\ pc' = [pc EXCEPT ![r] = "done"]
    /\ UNCHANGED <<req, todo, snapshot, next_action, outbox>>
    /\ UNCHANGED <<subscriptions, subscription_tokens, newsletter_issues,
                   issue_delivery_queue>>
    /\ UNCHANGED workerVars
    /\ UNCHANGED loginVars
    /\ UNCHANGED reply

\* get_saved_response called by a later request for the user and key of request q.
call_get_saved_response(r, q) ==
    /\ pc[r] = "init"
    /\ pc[q] = "done"
    /\ LET saved == get_saved_response(idempotency, req[q].user_id, req[q].idempotency_key)
       IN  response' = [response EXCEPT ![r] =
               IF saved = {} THEN NoResponse ELSE CHOOSE x \in saved : TRUE]
    /\ req' = [req EXCEPT ![r] = req[q]]
    /\ next_action' = [next_action EXCEPT ![r] = "ReturnSavedResponse"]
    /\ pc' = [pc EXCEPT ![r] = "done"]
    /\ UNCHANGED <<tx, todo, snapshot, outbox>>
    /\ UNCHANGED dbVars
    /\ UNCHANGED workerVars
    /\ UNCHANGED loginVars
    /\ UNCHANGED reply

\* Request 1 got StartProcessing and has built its response.
InitRoundTrip ==
    /\ subscriptions = <<>>
    /\ subscription_tokens = {}
    /\ idempotency = {}
    /\ newsletter_issues = {}
    /\ issue_delivery_queue = {}
    /\ outbox = EmptyBag
    /\ pc = [r \in Requests |-> IF r = 1 THEN "save_response" ELSE "init"]
    /\ req = [r \in Requests |->
                IF r = 1 THEN [user_id |-> "u1", idempotency_key |-> "k1",
                               title |-> "t1", content |-> "c1"]
                ELSE NoReq]
    /\ tx = [r \in Requests |-> IF r = 1 THEN {KeyRow("u1", "k1")} ELSE {}]
    /\ todo = [r \in Requests |-> {}]
    /\ snapshot = [r \in Requests |-> {}]
    /\ next_action = [r \in Requests |-> IF r = 1 THEN "StartProcessing" ELSE "none"]
    /\ response \in {[r \in Requests |-> IF r = 1 THEN x ELSE NoResponse] :
                        x \in ResponseInputs}
    /\ enable_background_worker = FALSE
    /\ wpc = [w \in Workers |-> "dequeue"]
    /\ wtask = [w \in Workers |-> NoTask]
    /\ wsleep = [w \in Workers |-> 0]
    /\ faults = 0
    /\ reply = NoResponse
    /\ users = SeedUsers
    /\ session = NoSession
    /\ session_id = 0
    /\ login_log = <<>>

NextRoundTrip ==
    \/ \E r \in Requests : call_save_response(r)
    \/ \E r \in Requests : call_get_saved_response(r, 1)

RoundTripSpec == InitRoundTrip /\ [][NextRoundTrip]_vars

(***************************************************************************)
(* The subscription endpoints alone, with every input and every outcome.   *)
(***************************************************************************)
NextSubscribe ==
    \/ \E name \in NameInputs, email \in EmailInputs, outcome \in SubscribeOutcomes :
            subscribe(name, email, outcome)
    \/ \E token \in TokenInputs : confirm(token)

SubscribeSpec == Init /\ [][NextSubscribe]_vars

(***************************************************************************)
(* The publish endpoint alone, on a database that holds the subscribers,   *)
(* with every form the client may send.                                    *)
(***************************************************************************)
InitPublish ==
    /\ subscriptions \in
          {<<>>, <<[email |-> Addresses[1], name |-> "le guin", status |-> "confirmed"]>>}
    /\ subscription_tokens =
          {[subscription_token |-> i, subscriber_id |-> i] : i \in DOMAIN subscriptions}
    /\ idempotency = {}
    /\ newsletter_issues = {}
    /\ issue_delivery_queue = {}
    /\ outbox = EmptyBag
    /\ pc = [r \in Requests |-> "init"]
    /\ req = [r \in Requests |-> NoReq]
    /\ tx = [r \in Requests |-> {}]
    /\ todo = [r \in Requests |-> {}]
    /\ snapshot = [r \in Requests |-> {}]
    /\ next_action = [r \in Requests |-> "none"]
    /\ response = [r \in Requests |-> NoResponse]
    /\ enable_background_worker = FALSE
    /\ wpc = [w \in Workers |-> "dequeue"]
    /\ wtask = [w \in Workers |-> NoTask]
    /\ wsleep = [w \in Workers |-> 0]
    /\ faults = 0
    /\ reply = NoResponse
    /\ users = SeedUsers
    /\ session = NoSession
    /\ session_id = 0
    /\ login_log = <<>>

FormInputs ==
    PublishForms(KeyInputs) \cup {BodyWithoutKey(b.title, b.content) : b \in Bodies}

NextPublish ==
    \/ \E r \in Requests, u \in UserInputs, f \in FormInputs : publish_newsletter(r, u, f)
    \/ \E r \in Requests : try_processing(r)
    \/ \E r \in Requests : get_confirmed_subscribers(r)
    \/ \E r \in Requests, s \in SubscriberIds, ok \in BOOLEAN : send_email_to_subscribers(r, s, ok)
    \/ \E r \in Requests : finish_publish(r)
    \/ \E r \in Requests : request_timeout(r)

PublishSpec == InitPublish /\ [][NextPublish]_vars

(***************************************************************************)
(* The publish endpoint on a database that already holds idempotency       *)
(* records, with and without a stored response.                            *)
(***************************************************************************)
\* A record as save_response leaves it.
SavedRow(user_id, key, resp) ==
    CHOOSE x \in save_response({}, {KeyRow(user_id, key)}, user_id, key, resp) : TRUE

\* The records the table may hold for a user: none, one without a response,
\* one with the response of a publish, one with another response.
RecordInputs(user_id) ==
    {{}, {KeyRow(user_id, "k1")},
     {SavedRow(user_id, "k1", WithFlash(RedirectTo("/admin/newsletters")))},
     {SavedRow(user_id, "k1", [status |-> 200, headers |-> <<>>, body |-> "<html>"])}}

InitSaved ==
    /\ subscriptions = <<[email |-> Addresses[1], name |-> "le guin", status |-> "confirmed"]>>
    /\ subscription_tokens = {[subscription_token |-> 1, subscriber_id |-> 1]}
    /\ idempotency \in {a \cup b : a \in RecordInputs("u1"), b \in RecordInputs("u2")}
    /\ newsletter_issues = {}
    /\ issue_delivery_queue = {}
    /\ outbox = EmptyBag
    /\ pc = [r \in Requests |-> "init"]
    /\ req = [r \in Requests |-> NoReq]
    /\ tx = [r \in Requests |-> {}]
    /\ todo = [r \in Requests |-> {}]
    /\ snapshot = [r \in Requests |-> {}]
    /\ next_action = [r \in Requests |-> "none"]
    /\ response = [r \in Requests |-> NoResponse]
    /\ enable_background_worker = FALSE
    /\ wpc = [w \in Workers |-> "dequeue"]
    /\ wtask = [w \in Workers |-> NoTask]
    /\ wsleep = [w \in Workers |-> 0]
    /\ faults = 0
    /\ reply = NoResponse
    /\ users = SeedUsers
    /\ session = NoSession
    /\ session_id = 0
    /\ login_log = <<>>

NextSaved ==
    \/ \E r \in Requests, u \in UserInputs, f \in PublishForms(Keys) : publish_newsletter(r, u, f)
    \/ \E r \in Requests : try_processing(r)
    \/ \E r \in Requests : get_confirmed_subscribers(r)
    \/ \E r \in Requests, s \in SubscriberIds, ok \in BOOLEAN : send_email_to_subscribers(r, s, ok)
    \/ \E r \in Requests : finish_publish(r)
    \/ \E r \in Requests : request_timeout(r)

SavedSpec == InitSaved /\ [][NextSaved]_vars

\* The same requests on a database without idempotency records.
IdempotencySpec == InitPublish /\ [][NextSaved]_vars

(***************************************************************************)
(* The login endpoint alone.                                               *)
(***************************************************************************)
NextLogin ==
    \E username \in Usernames, password \in Passwords, db_ok \in BOOLEAN :
        login(username, password, db_ok)

LoginSpec == Init /\ [][NextLogin]_vars

(***************************************************************************)
(* The login endpoint on a users table that also holds a row whose         *)
(* password_hash is not a PHC string.                                      *)
(***************************************************************************)
\* A row whose password_hash PasswordHash::new rejects.
LegacyUser ==
    [user_id |-> "u3", username |-> "legacy", password_hash |-> <<"plain", "legacy-pw-0001">>]

CredentialInputs ==
    {[username |-> username, password |-> password] :
        username \in Usernames \cup {"legacy"},
        password \in {"admin-pw-0001", "wrong-pw-0001", "legacy-pw-0001", FallbackPassword}}

InitCredentials ==
    /\ subscriptions = <<>>
    /\ subscription_tokens = {}
    /\ idempotency = {}
    /\ newsletter_issues = {}
    /\ issue_delivery_queue = {}
    /\ outbox = EmptyBag
    /\ pc = [r \in Requests |-> "init"]
    /\ req = [r \in Requests |-> NoReq]
    /\ tx = [r \in Requests |-> {}]
    /\ todo = [r \in Requests |-> {}]
    /\ snapshot = [r \in Requests |-> {}]
    /\ next_action = [r \in Requests |-> "none"]
    /\ response = [r \in Requests |-> NoResponse]
    /\ enable_background_worker = FALSE
    /\ wpc = [w \in Workers |-> "dequeue"]
    /\ wtask = [w \in Workers |-> NoTask]
    /\ wsleep = [w \in Workers |-> 0]
    /\ faults = 0
    /\ reply = NoResponse
    /\ users = SeedUsers \cup {LegacyUser}
    /\ session = NoSession
    /\ session_id = 0
    /\ login_log = <<>>

NextCredentials ==
    \E c \in CredentialInputs : login(c.username, c.password, TRUE)

CredentialsSpec == InitCredentials /\ [][NextCredentials]_vars

(***************************************************************************)
(* The admin area: one browser that logs in and out and calls the /admin   *)
(* routes, with the session cookie it holds or with one it held before.    *)
(***************************************************************************)
NewPassword == "new-password-0001"

\* The passwords the administrator types: the seeded one, a new one that
\* satisfies the requirements, and one that is too short.
AdminPasswordInputs == {"admin-pw-0001", NewPassword, "too-short"}

\* The forms of POST /admin/password: the current password right or wrong,
\* the new password typed twice or mistyped the second time.
ChangePasswordForms ==
    {form \in [current_password : {"admin-pw-0001", NewPassword},
               new_password : AdminPasswordInputs,
               new_password_check : AdminPasswordInputs \cup {"mistyped"}] :
        form.new_password_check \in {form.new_password, "mistyped"}}

NextAdmin ==
    \/ \E password \in {"admin-pw-0001", NewPassword} : login("admin", password, TRUE)
    \/ \E sid \in SessionIdInputs : admin_dashboard(sid)
    \/ \E sid \in SessionIdInputs : change_password_form(sid)
    \/ \E sid \in SessionIdInputs, form \in ChangePasswordForms :
            admin_change_password(sid, form.current_password, form.new_password,
                                  form.new_password_check)
    \/ \E sid \in SessionIdInputs : log_out(sid)
    \/ \E sid \in SessionIdInputs, f \in PublishForms(Keys) :
            admin_publish_newsletter(sid, 1, f)
    \/ \E r \in Requests : try_processing(r)
    \/ \E r \in Requests : get_confirmed_subscribers(r)
    \/ \E r \in Requests : finish_publish(r)

AdminSpec == Init /\ [][NextAdmin]_vars

(***************************************************************************)
(* Changing the password, with new passwords of every length up to one     *)
(* past the maximum.                                                       *)
(***************************************************************************)
MaxPasswordLength == 129

PasswordInputs == {PasswordOfLength(n) : n \in 0..MaxPasswordLength}

\* The password that is stored for the user at the moment.
CurrentPassword(user_id) == (CHOOSE u \in users : u.user_id = user_id).password_hash[2]

\* The administrator is logged in.
InitPassword ==
    /\ subscriptions = <<>>
    /\ subscription_tokens = {}
    /\ idempotency = {}
    /\ newsletter_issues = {}
    /\ issue_delivery_queue = {}
    /\ outbox = EmptyBag
    /\ pc = [r \in Requests |-> "init"]
    /\ req = [r \in Requests |-> NoReq]
    /\ tx = [r \in Requests |-> {}]
    /\ todo = [r \in Requests |-> {}]
    /\ snapshot = [r \in Requests |-> {}]
    /\ next_action = [r \in Requests |-> "none"]
    /\ response = [r \in Requests |-> NoResponse]
    /\ enable_background_worker = FALSE
    /\ wpc = [w \in Workers |-> "dequeue"]
    /\ wtask = [w \in Workers |-> NoTask]
    /\ wsleep = [w \in Workers |-> 0]
    /\ faults = 0
    /\ reply = NoResponse
    /\ users = SeedUsers
    /\ session = insert_user_id(NoSession, "u1")
    /\ session_id = 1
    /\ login_log = <<>>

NextPassword ==
    \E new \in PasswordInputs :
        admin_change_password(session_id, CurrentPassword("u1"), new, new)

PasswordSpec == InitPassword /\ [][NextPassword]_vars

(***************************************************************************)
(* Issue delivery worker.                                                  *)
(***************************************************************************)
\* The worker needs one task more than there are workers to show M > N.
QueueSize == NumWorkers + 1

IssueRow(id) == [newsletter_issue_id |-> id, title |-> "t1", text_content |-> "c1"]

Task(id, email) == [newsletter_issue_id |-> id, subscriber_email |-> email]

AllTasks == {Task(id, email) : id \in IssueIds, email \in {Addresses[1], Addresses[2], InvalidEmail}}

LockedByOthers_until_sent(w) == {wtask[v] : v \in {x \in Workers \ {w} : wpc[x] = "deliver"}}

\* Rows of the queue locked (SELECT ... FOR UPDATE) by transactions of other workers.
LockedByOthers(w) == {wtask[v] : v \in {x \in Workers \ {w} : wpc[x] \in {"deliver", "delete"}}}

all_tasks(w) == issue_delivery_queue

\* SELECT ... FROM issue_delivery_queue FOR UPDATE SKIP LOCKED: the rows no
\* other transaction has locked.
available_tasks(w) == issue_delivery_queue \ LockedByOthers(w)

\* get_issue: SELECT title, text_content FROM newsletter_issues WHERE newsletter_issue_id = $1.
get_issue(issue_id) == {i \in newsletter_issues : i.newsletter_issue_id = issue_id}

sleep_seconds_busy(outcome) ==
    CASE outcome = "Err" -> 1
      [] outcome = "EmptyQueue" -> 0
      [] outcome = "TaskCompleted" -> 0

\* worker_loop, the match on the result of try_execute_task: the seconds the
\* worker sleeps before the next iteration.
sleep_seconds(outcome) ==
    CASE outcome = "Err" -> 1
      [] outcome = "EmptyQueue" -> 10
      [] outcome = "TaskCompleted" -> 0

\* worker_loop: where the worker is after an iteration with the outcome.
next_position(outcome) == IF sleep_seconds(outcome) = 0 THEN "dequeue" ELSE "sleep"

\* dequeue_task and the let-else of try_execute_task: LIMIT 1 picks any
\* available row; with none the transaction is dropped, the outcome is
\* EmptyQueue and worker_loop sleeps.
dequeue_task(w) ==
    /\ wpc[w] = "dequeue"
    /\ IF available_tasks(w) = {}
       THEN /\ wpc' = [wpc EXCEPT ![w] = next_position("EmptyQueue")]
            /\ wsleep' = [wsleep EXCEPT ![w] = sleep_seconds("EmptyQueue")]
            /\ UNCHANGED wtask
       ELSE \E t \in available_tasks(w) :
            /\ wtask' = [wtask EXCEPT ![w] = t]
            /\ wpc' = [wpc EXCEPT ![w] = "deliver"]
            /\ UNCHANGED wsleep
    /\ UNCHANGED <<enable_background_worker, faults, outbox>>
    /\ UNCHANGED dbVars
    /\ UNCHANGED reqVars
    /\ UNCHANGED loginVars
    /\ UNCHANGED reply

after_send_email_retry(ok) == IF ok THEN "delete" ELSE "deliver"

\* try_execute_task, `if let Err(e) = email_client.send_email(..)`: a failure
\* of the transport is logged only, the iteration goes on to delete_task.
after_send_email(ok) == "delete"

\* try_execute_task, the match on SubscriberEmail::parse: a valid address is
\* sent the issue, whatever the transport answers; an invalid one is skipped.
\* A failing get_issue is an infrastructure error: the transaction is dropped
\* and worker_loop sleeps.
deliver_task(w, ok) ==
    /\ wpc[w] = "deliver"
    /\ LET t == wtask[w]
           issue == get_issue(t.newsletter_issue_id)
       IN  IF ValidEmail(t.subscriber_email)
           THEN IF issue = {}
                THEN /\ wpc' = [wpc EXCEPT ![w] = next_position("Err")]
                     /\ wsleep' = [wsleep EXCEPT ![w] = sleep_seconds("Err")]
                     /\ wtask' = [wtask EXCEPT ![w] = NoTask]
                     /\ UNCHANGED outbox
                ELSE /\ outbox' = send_email(outbox, t.subscriber_email,
                                            (CHOOSE i \in issue : TRUE).title,
                                            <<"worker", t.newsletter_issue_id>>, 0, ok)
                     /\ wpc' = [wpc EXCEPT ![w] = after_send_email(ok)]
                     /\ UNCHANGED <<wtask, wsleep>>
           ELSE /\ wpc' = [wpc EXCEPT ![w] = "delete"]
                /\ UNCHANGED <<wtask, wsleep, outbox>>
    /\ UNCHANGED <<enable_background_worker, faults>>
    /\ UNCHANGED dbVars
    /\ UNCHANGED reqVars
    /\ UNCHANGED loginVars
    /\ UNCHANGED reply

\* delete_task: DELETE FROM issue_delivery_queue WHERE issue and email; commit.
\* The outcome is TaskCompleted and worker_loop starts the next iteration.
delete_task(w) ==
    /\ wpc[w] = "delete"
    /\ issue_delivery_queue' = issue_delivery_queue \ {wtask[w]}
    /\ wtask' = [wtask EXCEPT ![w] = NoTask]
    /\ wpc' = [wpc EXCEPT ![w] = next_position("TaskCompleted")]
    /\ wsleep' = [wsleep EXCEPT ![w] = sleep_seconds("TaskCompleted")]
    /\ UNCHANGED <<enable_background_worker, faults, outbox>>
    /\ UNCHANGED <<subscriptions, subscription_tokens, idempotency, newsletter_issues>>
    /\ UNCHANGED reqVars
    /\ UNCHANGED loginVars
    /\ UNCHANGED reply

\* worker_loop: the sleep is over, next iteration.
wake_up(w) ==
    /\ wpc[w] = "sleep"
    /\ wpc' = [wpc EXCEPT ![w] = "dequeue"]
    /\ wsleep' = [wsleep EXCEPT ![w] = 0]
    /\ UNCHANGED <<enable_background_worker, wtask, faults, outbox>>
    /\ UNCHANGED dbVars
    /\ UNCHANGED reqVars
    /\ UNCHANGED loginVars
    /\ UNCHANGED reply

worker_loop(w) ==
    \/ dequeue_task(w)
    \/ \E ok \in BOOLEAN : deliver_task(w, ok)
    \/ delete_task(w)
    \/ wake_up(w)

(***************************************************************************)
(* The workers started on a database that holds issues and a queue of      *)
(* tasks, with no publish request arriving.                                *)
(***************************************************************************)
InitWorker ==
    /\ subscriptions = <<>>
    /\ subscription_tokens = {}
    /\ idempotency = {}
    /\ newsletter_issues = {IssueRow(id) : id \in IssueIds}
    /\ issue_delivery_queue \in {q \in SUBSET AllTasks : Cardinality(q) <= QueueSize}
    /\ outbox = EmptyBag
    /\ pc = [r \in Requests |-> "init"]
    /\ req = [r \in Requests |-> NoReq]
    /\ tx = [r \in Requests |-> {}]
    /\ todo = [r \in Requests |-> {}]
    /\ snapshot = [r \in Requests |-> {}]
    /\ next_action = [r \in Requests |-> "none"]
    /\ response = [r \in Requests |-> NoResponse]
    /\ enable_background_worker = TRUE
    /\ wpc = [w \in Workers |-> "dequeue"]
    /\ wtask = [w \in Workers |-> NoTask]
    /\ wsleep = [w \in Workers |-> 0]
    /\ faults = 0
    /\ reply = NoResponse
    /\ users = SeedUsers
    /\ session = NoSession
    /\ session_id = 0
    /\ login_log = <<>>

NextWorker ==
    \/ \E w \in Workers : dequeue_task(w)
    \/ \E w \in Workers, ok \in BOOLEAN : deliver_task(w, ok)
    \/ \E w \in Workers : delete_task(w)
    \/ \E w \in Workers : wake_up(w)

\* Each worker is a spawned task that the runtime keeps scheduling.
WorkerSpec == InitWorker /\ [][NextWorker]_vars /\ \A w \in Workers : WF_vars(worker_loop(w))

(***************************************************************************)
(* The workers on the same database when database calls may fail and a     *)
(* worker process may die and be started again.                            *)
(***************************************************************************)
MaxFaults == 2

\* The await points of try_execute_task whose `?` may return an error:
\* pool.begin and the SELECT of dequeue_task, get_issue (called for a valid
\* address only), the DELETE and the commit of delete_task.
FailurePoints(w) ==
    CASE wpc[w] = "dequeue" -> {"dequeue_task"}
      [] wpc[w] = "deliver" ->
            IF ValidEmail(wtask[w].subscriber_email) THEN {"get_issue"} ELSE {}
      [] wpc[w] = "delete" -> {"delete_task"}
      [] OTHER -> {}

Transaction_drop_commits(queue, task) == queue \ {task}

\* Dropping the transaction of dequeue_task without a commit rolls it back:
\* the row stays in the queue, also when the DELETE had been executed.
Transaction_drop(queue, task) == queue

\* The rollback releases the lock on the row.
release_claim(task) == NoTask

\* A database call of the iteration fails: try_execute_task returns the error
\* through `?`, the transaction is dropped, worker_loop sleeps and goes on.
infrastructure_error(w) ==
    /\ faults < MaxFaults
    /\ FailurePoints(w) # {}
    /\ faults' = faults + 1
    /\ wtask' = [wtask EXCEPT ![w] = release_claim(@)]
    /\ wpc' = [wpc EXCEPT ![w] = next_position("Err")]
    /\ wsleep' = [wsleep EXCEPT ![w] = sleep_seconds("Err")]
    /\ issue_delivery_queue' = Transaction_drop(issue_delivery_queue, wtask[w])
    /\ UNCHANGED <<subscriptions, subscription_tokens, idempotency, newsletter_issues>>
    /\ UNCHANGED <<enable_background_worker, outbox, reply>>
    /\ UNCHANGED reqVars
    /\ UNCHANGED loginVars

\* The worker's process dies at any point and is started again: the database
\* rolls back the transaction of the closed connection, run_worker_until_stopped
\* enters worker_loop.
crash(w) ==
    /\ faults < MaxFaults
    /\ faults' = faults + 1
    /\ wtask' = [wtask EXCEPT ![w] = release_claim(@)]
    /\ wpc' = [wpc EXCEPT ![w] = "dequeue"]
    /\ wsleep' = [wsleep EXCEPT ![w] = 0]
    /\ issue_delivery_queue' = Transaction_drop(issue_delivery_queue, wtask[w])
    /\ UNCHANGED <<subscriptions, subscription_tokens, idempotency, newsletter_issues>>
    /\ UNCHANGED <<enable_background_worker, outbox, reply>>
    /\ UNCHANGED reqVars
    /\ UNCHANGED loginVars

\* The queue the faulty runs start with: tasks of two issues, one of them
\* with an address that does not parse.
FaultTasks == {Task(1, Addresses[1]), Task(1, InvalidEmail), Task(2, Addresses[2])}

InitWorkerFault ==
    /\ subscriptions = <<>>
    /\ subscription_tokens = {}
    /\ idempotency = {}
    /\ newsletter_issues = {IssueRow(id) : id \in IssueIds}
    /\ issue_delivery_queue \in SUBSET FaultTasks
    /\ outbox = EmptyBag
    /\ pc = [r \in Requests |-> "init"]
    /\ req = [r \in Requests |-> NoReq]
    /\ tx = [r \in Requests |-> {}]
    /\ todo = [r \in Requests |-> {}]
    /\ snapshot = [r \in Requests |-> {}]
    /\ next_action = [r \in Requests |-> "none"]
    /\ response = [r \in Requests |-> NoResponse]
    /\ enable_background_worker = TRUE
    /\ wpc = [w \in Workers |-> "dequeue"]
    /\ wtask = [w \in Workers |-> NoTask]
    /\ wsleep = [w \in Workers |-> 0]
    /\ faults = 0
    /\ reply = NoResponse
    /\ users = SeedUsers
    /\ session = NoSession
    /\ session_id = 0
    /\ login_log = <<>>

\* The email transport accepts every request here.
NextWorkerFault ==
    \/ \E w \in Workers : dequeue_task(w)
    \/ \E w \in Workers : deliver_task(w, TRUE)
    \/ \E w \in Workers : delete_task(w)
    \/ \E w \in Workers : wake_up(w)
    \/ \E w \in Workers : infrastructure_error(w)
    \/ \E w \in Workers : crash(w)

WorkerFaultSpec == InitWorkerFault /\ [][NextWorkerFault]_vars

(***************************************************************************)
(* Vocabulary of the properties.                                           *)
(***************************************************************************)
RECURSIVE SumCopies(_, _)
SumCopies(box, S) ==
    IF S = {} THEN 0
    ELSE LET m == CHOOSE x \in S : TRUE
         IN  CopiesIn(m, box) + SumCopies(box, S \ {m})

\* Requests the transport received from the publish requests in R for the
\* subscriber row s, with an answer in oks.
PublishSends(R, s, oks) ==
    SumCopies(outbox, {m \in BagToSet(outbox) :
        m.via[1] = "publish" /\ m.via[2] \in R /\ m.sid = s /\ m.ok \in oks})

\* Requests the transport received from the workers for the task t.
WorkerSends(t) ==
    SumCopies(outbox, {m \in BagToSet(outbox) :
        m.via = <<"worker", t.newsletter_issue_id>> /\ m.to = t.subscriber_email})

SameKey(r, q) ==
    /\ req[r].user_id = req[q].user_id
    /\ req[r].idempotency_key = req[q].idempotency_key

SameForm(r, q) ==
    /\ SameKey(r, q)
    /\ req[r].title = req[q].title
    /\ req[r].content = req[q].content

\* The request that processed the key and completed successfully.
Original(r) ==
    /\ pc[r] = "done"
    /\ next_action[r] = "StartProcessing"
    /\ response[r].status = 303

ReplaysOf(r) ==
    {q \in Requests \ {r} : SameKey(r, q) /\ next_action[q] = "ReturnSavedResponse"}

\* A request that ended without a timeout and without a failed send.
CompletedCleanly(r) ==
    /\ pc[r] = "done"
    /\ response[r].status # 408
    /\ \A s \in SubscriberIds : PublishSends({r}, s, {FALSE}) = 0

\* Issue rows that carry the title and content of a publish request of (user_id, key).
IssuesOf(user_id, key) ==
    {i \in newsletter_issues : \E r \in Requests :
        /\ req[r].user_id = user_id
        /\ req[r].idempotency_key = key
        /\ i.title = req[r].title
        /\ i.text_content = req[r].content}

(***************************************************************************)
(* Properties of the publish pipeline.                                     *)
(***************************************************************************)
C1_Counts ==
    \A r \in Requests : Original(r) =>
        /\ \A q \in ReplaysOf(r) :
            /\ response[q].status = 303
            /\ Location(response[q]) = "/admin/newsletters"
        /\ \A s \in SubscriberIds :
            PublishSends({r} \cup ReplaysOf(r), s, BOOLEAN) = IF s \in snapshot[r] THEN 1 ELSE 0

C1_Step ==
    \A q \in Requests :
        ( /\ pc[q] = "try_processing"
          /\ pc'[q] # "try_processing"
          /\ response'[q].status # 408
          /\ RowsOf(idempotency, req[q].user_id, req[q].idempotency_key) # {} )
        => /\ pc'[q] = "done"
           /\ next_action'[q] = "ReturnSavedResponse"
           /\ response'[q].status = 303
           /\ Location(response'[q]) = "/admin/newsletters"
           /\ outbox' = outbox
           /\ issue_delivery_queue' = issue_delivery_queue
           /\ idempotency' = idempotency

\* C1: once a publish with key k of a user has completed successfully, every
\* later publish of that user with k returns the saved response (303 to
\* /admin/newsletters) without sending or enqueuing anything, and the original
\* and its replays together send exactly one email per subscriber that was
\* confirmed when the original read the subscribers.
C1_ReplayReturnsSavedResponse == []C1_Counts /\ [][C1_Step]_vars

C1_Witness ==
    \E r \in Requests : \E q \in ReplaysOf(r) :
        Original(r) /\ pc[q] = "done" /\ snapshot[r] # {}

\* C2: two publish requests with the same user, key, title and content that
\* both complete return the same status and body, and produce exactly one
\* newsletter issue and one send per confirmed subscriber.
C2_ConcurrentPublish ==
    \A r \in Requests : \A q \in Requests \ {r} :
        (SameForm(r, q) /\ CompletedCleanly(r) /\ CompletedCleanly(q)) =>
            /\ response[r].status = response[q].status
            /\ response[r].body = response[q].body
            /\ Cardinality(IssuesOf(req[r].user_id, req[r].idempotency_key)) = 1
            /\ \A s \in snapshot[r] \cup snapshot[q] : PublishSends({r, q}, s, BOOLEAN) = 1

\* C3: when a publish ended with 500 because a send failed after another send
\* had succeeded, the retry with the same key returns 303 and no subscriber is
\* sent the newsletter twice over both attempts.
C3_NoDuplicateOnRetry ==
    \A r \in Requests : \A q \in Requests \ {r} :
        ( /\ SameKey(r, q)
          /\ pc[r] = "done" /\ response[r].status = 500
          /\ \E s \in SubscriberIds : PublishSends({r}, s, {TRUE}) > 0
          /\ next_action[q] = "StartProcessing" /\ CompletedCleanly(q) )
        => /\ response[q].status = 303
           /\ \A s \in SubscriberIds : PublishSends({r, q}, s, {TRUE}) <= 1

\* C4: the idempotency record of (user_id, key) is committed exactly when the
\* newsletter issue of that publish is, and every queue row belongs to a
\* committed issue.
C4_AllOrNothing ==
    /\ \A u \in Users, k \in Keys :
        (RowsOf(idempotency, u, k) # {}) <=> (IssuesOf(u, k) # {})
    /\ \A t \in issue_delivery_queue : get_issue(t.newsletter_issue_id) # {}

\* C5: the commit of a publish adds as many queue rows as there are confirmed
\* subscribers at that instant.
C5_QueueRowsMatchConfirmed ==
    [][\A r \in Requests :
        (pc[r] = "send_email" /\ pc'[r] = "done" /\ response'[r].status = 303) =>
            Cardinality(issue_delivery_queue' \ issue_delivery_queue)
                = Cardinality(select_confirmed_subscribers(subscriptions'))]_vars

\* C6: after the originating request of (user, key) has completed, exactly one
\* newsletter issue row is attributable to the pair.
C6_OneIssuePerKey ==
    \A r \in Requests : Original(r) =>
        Cardinality(IssuesOf(req[r].user_id, req[r].idempotency_key)) = 1

\* C7: a newsletter is only sent to subscriber rows that were confirmed when
\* the publish read the subscribers; a pending subscriber gets no newsletter.
C7_OnlyConfirmedReceive ==
    /\ \A r \in Requests : \A s \in snapshot[r] :
        s \in DOMAIN subscriptions /\ subscriptions[s].status = "confirmed"
    /\ \A m \in BagToSet(outbox) : m.via[1] = "publish" =>
        /\ m.sid \in snapshot[m.via[2]]
        /\ m.to = subscriptions[m.sid].email

C7_Witness ==
    /\ \E s \in DOMAIN subscriptions : subscriptions[s].status = "pending_confirmation"
    /\ \E r \in Requests : Original(r) /\ snapshot[r] # {}

\* C9: with the worker disabled a successful publish leaves one task per
\* confirmed subscriber in the queue and sends no newsletter email.
C9_TasksWaitForWorker ==
    ~enable_background_worker =>
        \A r \in Requests : Original(r) =>
            /\ \A m \in BagToSet(outbox) : m.via[1] = "subscribe"
            /\ \A s \in snapshot[r] :
                \E t \in issue_delivery_queue : t.subscriber_email = subscriptions[s].email

C10_Step ==
    \A r \in Requests :
        ( /\ pc[r] \in {"get_confirmed_subscribers", "send_email"}
          /\ next_action[r] = "StartProcessing"
          /\ pc'[r] = "done"
          /\ response'[r].status = 408 )
        => /\ tx'[r] = {}
           /\ RowsOf(idempotency', req[r].user_id, req[r].idempotency_key) = {}
           /\ \A q \in Requests : RowsOf(tx'[q], req[r].user_id, req[r].idempotency_key) = {}
           /\ starts_processing(n_inserted_rows(idempotency', req[r].user_id,
                                                req[r].idempotency_key))

\* C10: a publish cancelled by the request timeout after try_processing
\* returned StartProcessing and before save_response committed leaves no
\* idempotency row for (user_id, key), committed or in flight, so that the
\* insert of a later request with the key succeeds (StartProcessing).
C10_CancelRollsBack == [][C10_Step]_vars

C10_Witness ==
    \E r \in Requests : \E q \in Requests \ {r} :
        /\ SameKey(r, q)
        /\ pc[r] = "done" /\ response[r].status = 408 /\ next_action[r] = "StartProcessing"
        /\ Original(q)

(***************************************************************************)
(* Properties of the delivery worker.                                      *)
(***************************************************************************)
Claimed(t) == \E w \in Workers : wpc[w] \in {"deliver", "delete"} /\ wtask[w] = t

Delivered(t) == IF ValidEmail(t.subscriber_email) THEN 1 ELSE 0

C8_AtMostOnce ==
    \A t \in AllTasks :
        /\ WorkerSends(t) <= Delivered(t)
        /\ (t \in issue_delivery_queue /\ ~Claimed(t)) => WorkerSends(t) = 0

C11_RoundTrip ==
    \A r \in Requests \ {1} :
        ( /\ pc[1] = "done" /\ pc[r] = "done"
          /\ RowsOf(idempotency, req[1].user_id, req[1].idempotency_key) # {} )
        => /\ response[r].status = response[1].status
           /\ response[r].headers = response[1].headers
           /\ response[r].body = response[1].body

C11_Witness ==
    /\ pc[2] = "done"
    /\ RowsOf(idempotency, req[1].user_id, req[1].idempotency_key) # {}
    /\ Len(response[2].headers) = 3
    /\ response[2].headers[1][1] = response[2].headers[2][1]
    /\ response[2].headers[1][2] # response[2].headers[2][2]
    /\ response[2].headers[3][1] # response[2].headers[1][1]

FlashCookies(resp) ==
    Cardinality({i \in 1..Len(resp.headers) : resp.headers[i][1] = "set-cookie"})

\* C12: the response of a replayed publish equals the response of the
\* original one in status, headers and body, and carries the flash cookie once.
C12_ReplayEqualsOriginal ==
    \A r \in Requests : Original(r) =>
        \A q \in ReplaysOf(r) : pc[q] = "done" =>
            /\ response[q].status = response[r].status
            /\ response[q].headers = response[r].headers
            /\ response[q].body = response[r].body
            /\ FlashCookies(response[q]) = 1

\* C13: a publish whose idempotency key is missing, empty or longer than 64
\* characters is answered with 400, and it inserts no idempotency row, opens
\* no transaction, sends no email and enqueues no task.
C13_InvalidKeyRejected ==
    [][\A r \in Requests, u \in Users, f \in FormInputs :
        ( /\ publish_newsletter(r, u, f)
          /\ \/ "idempotency_key" \notin DOMAIN f
             \/ f.idempotency_key = ""
             \/ Len(f.idempotency_key) > 64 )
        => /\ response'[r].status = 400
           /\ pc'[r] = "done"
           /\ tx' = tx
           /\ idempotency' = idempotency
           /\ outbox' = outbox
           /\ issue_delivery_queue' = issue_delivery_queue]_vars

(***************************************************************************)
(* Properties of the subscription lifecycle.                               *)
(***************************************************************************)
TokensIn(table, s) == {t \in table : t.subscriber_id = s}

TokensOf(s) == TokensIn(subscription_tokens, s)

\* A form that the validation rejects, described by what the client typed.
RejectedForm(name, email) == name = "" \/ email = "" \/ email = InvalidEmail

AcceptedForm(name, email) ==
    /\ name \in {"le guin", "ursula"}
    /\ \E i \in DOMAIN Addresses : email = Addresses[i]

\* The welcome email of subscriber row s did not get through.
WelcomeFailedIn(box, s) ==
    \E m \in BagToSet(box) : m.via = <<"subscribe", s>> /\ ~m.ok

WelcomeFailed(s) == WelcomeFailedIn(outbox, s)

C14_HasToken == \A s \in DOMAIN subscriptions : TokensOf(s) # {}

\* C14: in every committed state every subscriber row has a token row that
\* points at it (a subscribe whose token insert fails persists no subscriber),
\* and no step removes a token row.
C14_EverySubscriberHasToken ==
    /\ []C14_HasToken
    /\ [][subscription_tokens \subseteq subscription_tokens']_vars

C14_Witness ==
    /\ reply.body = "Failed to store the confirmation token for a new subscriber."
    /\ subscriptions # <<>>

\* C15: subscribe answers 200 only if the insert of the subscriber, the insert
\* of the token, the commit and the confirmation email all succeeded (and then
\* their effects are there); if one of them fails it answers 500, and if the
\* form is invalid it answers 422.
C15_SubscribeStatus ==
    [][\A name \in NameInputs, email \in EmailInputs, outcome \in SubscribeOutcomes :
        subscribe(name, email, outcome) =>
            /\ reply'.status = 200 =>
                  /\ AcceptedForm(name, email) /\ outcome = "Ok"
                  /\ Len(subscriptions') = Len(subscriptions) + 1
                  /\ TokensIn(subscription_tokens', Len(subscriptions')) # {}
                  /\ \E m \in BagToSet(outbox') :
                        m.via = <<"subscribe", Len(subscriptions')>> /\ m.ok
            /\ (AcceptedForm(name, email) /\ outcome = "Ok") => reply'.status = 200
            /\ (AcceptedForm(name, email) /\ outcome # "Ok") => reply'.status = 500
            /\ RejectedForm(name, email) => reply'.status = 422]_vars

C15_Witness ==
    /\ reply.status = 500
    /\ reply.body = "Failed to commit SQL transaction to store a new subscriber."
    /\ \E s \in DOMAIN subscriptions : \E m \in BagToSet(outbox) :
          m.via = <<"subscribe", s>> /\ m.ok

\* C16: if the confirmation email of a subscribe fails, the answer is 500 but
\* the subscriber (pending_confirmation) and its token are persisted, and a
\* later confirm with that token answers 200 and confirms the subscriber.
C16_CommitBeforeMail ==
    /\ [][\A name \in NameInputs, email \in EmailInputs :
            (subscribe(name, email, "SendEmailError") /\ AcceptedForm(name, email)) =>
                /\ reply'.status = 500
                /\ Len(subscriptions') = Len(subscriptions) + 1
                /\ subscriptions'[Len(subscriptions')].status = "pending_confirmation"
                /\ subscriptions'[Len(subscriptions')].email = email
                /\ TokensIn(subscription_tokens', Len(subscriptions')) # {}
                /\ WelcomeFailedIn(outbox', Len(subscriptions'))]_vars
    /\ [][\A s \in DOMAIN subscriptions : \A t \in TokensOf(s) :
            (WelcomeFailed(s) /\ confirm(t.subscription_token)) =>
                /\ reply'.status = 200
                /\ subscriptions'[s].status = "confirmed"]_vars
    /\ [](\A s \in DOMAIN subscriptions : WelcomeFailed(s) => TokensOf(s) # {})

C16_Witness ==
    \E s \in DOMAIN subscriptions :
        WelcomeFailed(s) /\ subscriptions[s].status = "confirmed" /\ reply.status = 200

\* C17: a subscribe with an empty name, an empty email or a malformed email
\* answers 422 and changes no table and sends no email.
C17_InvalidFormChangesNothing ==
    [][\A name \in NameInputs, email \in EmailInputs, outcome \in SubscribeOutcomes :
        (subscribe(name, email, outcome) /\ RejectedForm(name, email)) =>
            /\ reply'.status = 422
            /\ subscriptions' = subscriptions
            /\ subscription_tokens' = subscription_tokens
            /\ outbox' = outbox]_vars

C17_Witness ==
    /\ reply.status = 422
    /\ reply.body = "is not a valid subscriber email."
    /\ subscriptions # <<>>

\* C18: a successful subscribe leaves a token with which confirm answers 200
\* and sets exactly that subscriber to confirmed; confirming again answers 200
\* and changes nothing, and the token is never removed.
C18_ConfirmIdempotent ==
    /\ [][\A name \in NameInputs, email \in EmailInputs :
            (subscribe(name, email, "Ok") /\ reply'.status = 200) =>
                TokensIn(subscription_tokens', Len(subscriptions')) # {}]_vars
    /\ [][\A s \in DOMAIN subscriptions : \A t \in TokensOf(s) :
            confirm(t.subscription_token) =>
                /\ reply'.status = 200
                /\ subscriptions' = [subscriptions EXCEPT ![s].status = "confirmed"]
                /\ subscription_tokens' = subscription_tokens
                /\ subscriptions[s].status = "confirmed" => subscriptions' = subscriptions]_vars
    /\ [][subscription_tokens \subseteq subscription_tokens']_vars

C18_Witness ==
    /\ reply.status = 200
    /\ Len(subscriptions) = 2
    /\ subscriptions[1].status = "confirmed"
    /\ subscriptions[2].status = "pending_confirmation"
    /\ ~WelcomeFailed(1)

\* C19: confirm with a token that no token row holds answers 401 and changes
\* no subscriber.
C19_UnknownToken ==
    [][\A token \in TokenInputs :
        (confirm(token) /\ \A t \in subscription_tokens : t.subscription_token # token) =>
            /\ reply'.status = 401
            /\ subscriptions' = subscriptions
            /\ subscription_tokens' = subscription_tokens]_vars

C19_Witness ==
    /\ reply.status = 401
    /\ \E s \in DOMAIN subscriptions : subscriptions[s].status = "pending_confirmation"

(***************************************************************************)
(* Properties of the login.                                                *)
(***************************************************************************)
\* Attempt i named a user that does not exist, and the lookup worked.
UnknownUsernameAttempt(i) ==
    /\ login_log[i].db_ok
    /\ \A u \in users : u.username # login_log[i].username

\* Attempt i named an existing user with a password that is not theirs.
WrongPasswordAttempt(i) ==
    /\ login_log[i].db_ok
    /\ \E u \in users :
          /\ u.username = login_log[i].username
          /\ u.password_hash # compute_password_hash(login_log[i].password)

\* C20: a login with an unknown username and a login with a known username
\* and a wrong password get the same response: 303 to /login with the one
\* flash message "Authentication failed".
C20_SameFailureResponse ==
    \A i \in DOMAIN login_log : \A j \in DOMAIN login_log :
        (UnknownUsernameAttempt(i) /\ WrongPasswordAttempt(j)) =>
            /\ login_log[i].response = login_log[j].response
            /\ login_log[i].response.status = 303
            /\ Location(login_log[i].response) = "/login"
            /\ login_log[i].response.headers =
                  << <<"location", "/login">>,
                     <<"set-cookie", "_flash_=Authentication failed">> >>

C20_Witness ==
    \E i \in DOMAIN login_log : \E j \in DOMAIN login_log :
        /\ UnknownUsernameAttempt(i)
        /\ login_log[i].password = FallbackPassword
        /\ WrongPasswordAttempt(j)

\* The Argon2id verifications among the steps of attempt i.
Argon2Steps(i) ==
    {k \in DOMAIN login_log[i].steps : login_log[i].steps[k].name = "Argon2::verify_password"}

\* C21: validate_credentials runs the Argon2id verification whenever the
\* credential lookup did not fail, also for an unknown username, and the steps
\* executed for an unknown username are those executed for a known username
\* with a wrong password, with the same Argon2 parameters.
C21_SameSteps ==
    /\ \A i \in DOMAIN login_log :
          login_log[i].db_ok => Cardinality(Argon2Steps(i)) = 1
    /\ \A i \in DOMAIN login_log : \A j \in DOMAIN login_log :
          (UnknownUsernameAttempt(i) /\ WrongPasswordAttempt(j)) =>
              login_log[i].steps = login_log[j].steps

C21_Witness ==
    \E i \in DOMAIN login_log : \E j \in DOMAIN login_log :
        /\ UnknownUsernameAttempt(i)
        /\ login_log[i].password # FallbackPassword
        /\ Len(login_log[i].steps) = 3
        /\ WrongPasswordAttempt(j)
        /\ login_log[j].response.status = 303

(***************************************************************************)
(* Properties of the admin area.                                           *)
(***************************************************************************)
\* The session a request with the id presents holds no user id.
Unauthenticated(sid) == get_user_id(session_data(sid)) = {}

\* A request to one of the /admin routes, made with the session id.
AdminRequest(sid) ==
    \/ admin_dashboard(sid)
    \/ change_password_form(sid)
    \/ log_out(sid)
    \/ \E form \in ChangePasswordForms :
            admin_change_password(sid, form.current_password, form.new_password,
                                  form.new_password_check)
    \/ \E r \in Requests, f \in PublishForms(Keys) : admin_publish_newsletter(sid, r, f)

\* The answer is the redirect to /login and the handler left no trace.
RedirectedToLogin ==
    /\ reply'.status = 303
    /\ Location(reply') = "/login"
    /\ reply'.body = ""
    /\ UNCHANGED <<users, session, session_id, login_log, outbox>>
    /\ UNCHANGED dbVars
    /\ UNCHANGED reqVars

\* C22: a request to an /admin route made without a session that holds a
\* user id is answered with 303 to /login and its handler does not run:
\* nothing is published, no password is changed, no dashboard is rendered; a
\* publish request that runs belongs to a user of the users table.
C22_AdminRequiresLogin ==
    /\ [][\A sid \in SessionIdInputs :
            (Unauthenticated(sid) /\ AdminRequest(sid)) => RedirectedToLogin]_vars
    /\ [](\A r \in Requests :
            pc[r] # "init" => \E u \in users : u.user_id = req[r].user_id)

C22_Witness ==
    /\ reply = RedirectTo("/login")
    /\ login_log = <<>>
    /\ \A r \in Requests : pc[r] = "init"

\* C23: log_out deletes the session record; from then on every /admin request,
\* with the old session id or any other, is redirected to /login, and only a
\* successful login creates a record again.
C23_LogoutEndsSession ==
    /\ [][\A sid \in SessionIdInputs :
            (~Unauthenticated(sid) /\ log_out(sid)) =>
                /\ session' = NoSession
                /\ session_id' = 0
                /\ Location(reply') = "/login"]_vars
    /\ [][session_id = 0 =>
            \A sid \in SessionIdInputs : AdminRequest(sid) => RedirectedToLogin]_vars
    /\ [][(session_id = 0 /\ session_id' # 0) =>
            /\ Len(login_log') = Len(login_log) + 1
            /\ Location(login_log'[Len(login_log')].response) = "/admin/dashboard"
            /\ session_id' \notin {0} \cup DOMAIN login_log]_vars

C23_Witness ==
    /\ reply = RedirectTo("/login")
    /\ session_id = 0
    /\ \E i \in DOMAIN login_log : Location(login_log[i].response) = "/admin/dashboard"
    /\ \E r \in Requests : pc[r] = "done" /\ response[r].status = 303

\* C24: for every new password that satisfies the requirements, after
\* change_password(user_id, new_password) validate_credentials(username,
\* new_password) returns the user id the username had before, and a login with
\* the new password is redirected to /admin/dashboard.
C24_ChangeThenValidate ==
    /\ [](\A u \in users : \A password \in AdminPasswordInputs :
            verify_password_requirements(password) = <<>> =>
                LET validated == validate_credentials(
                        change_password(users, u.user_id, password), u.username, password, TRUE)
                IN  validated.result = "Ok" /\ validated.user_id = u.user_id)
    /\ [][\A sid \in SessionIdInputs : \A form \in ChangePasswordForms :
            ( /\ admin_change_password(sid, form.current_password, form.new_password,
                                       form.new_password_check)
              /\ Location(reply') = "/admin/password"
              /\ reply'.headers[2][2] = "_flash_=Your password has been changed." ) =>
                LET user == AuthorizedUser(users, session_data(sid))
                    new == form.new_password
                    before == validate_credentials(users, user.username,
                                                   form.current_password, TRUE)
                    after == validate_credentials(users', user.username, new, TRUE)
                IN  /\ verify_password_requirements(new) = <<>>
                    /\ after.result = "Ok"
                    /\ after.user_id = before.user_id
                    /\ after.user_id = user.user_id]_vars
    /\ [][\A password \in {"admin-pw-0001", NewPassword} :
            (login("admin", password, TRUE) /\ password = CurrentPassword("u1")) =>
                /\ Location(login_log'[Len(login_log')].response) = "/admin/dashboard"
                /\ get_user_id(session') = {"u1"}]_vars

C24_Witness ==
    /\ CurrentPassword("u1") = NewPassword
    /\ \E i \in DOMAIN login_log :
          /\ login_log[i].password = NewPassword
          /\ Location(login_log[i].response) = "/admin/dashboard"
    /\ \E i \in DOMAIN login_log :
          /\ login_log[i].password = "admin-pw-0001"
          /\ Location(login_log[i].response) = "/admin/dashboard"

\* The errors of a list.
Errors(errors) == {errors[i] : i \in DOMAIN errors}

\* C25: verify_password_requirements accepts a candidate exactly when its
\* length is between 12 and 128 bytes; a shorter one yields TooShort, a longer
\* one TooLong, and the change_password handler stores the new password
\* exactly when it is accepted.
C25_PasswordLength ==
    /\ [](\A password \in PasswordInputs :
            LET errors == Errors(verify_password_requirements(password))
                n == Len(password)
            IN  /\ (errors = {}) <=> (12 <= n /\ n <= 128)
                /\ ("TooShort" \in errors) <=> (n < 12)
                /\ ("TooLong" \in errors) <=> (n > 128))
    /\ [][\A new \in PasswordInputs :
            admin_change_password(session_id, CurrentPassword("u1"), new, new) =>
                IF 12 <= Len(new) /\ Len(new) <= 128
                THEN /\ users' = change_password(users, "u1", new)
                     /\ reply' = FlashRedirect("/admin/password", "",
                                               "Your password has been changed.")
                ELSE /\ users' = users
                     /\ reply' = FlashRedirect("/admin/password", "password_requirements",
                            IF Len(new) < 12
                            THEN "Password must be at least 12 characters long"
                            ELSE "Password cannot be longer than 128")]_vars

C25_Witness ==
    /\ Len(CurrentPassword("u1")) = 128
    /\ reply = FlashRedirect("/admin/password", "password_requirements",
                             "Password cannot be longer than 128")

(***************************************************************************)
(* Properties of the workers under database failures and crashes.          *)
(***************************************************************************)
\* The workers whose open transaction holds the lock on the row of the task.
Claimants(t) == {w \in Workers : wpc[w] \in {"deliver", "delete"} /\ wtask[w] = t}

\* C26: at any instant a task row is claimed by at most one worker and a
\* claimed row is in the queue; a dequeue never takes a row another worker has
\* claimed; a send for a task is made by the worker that claimed it, before its
\* delete; a row leaves the queue only by the delete of its claimant, in the
\* step that releases the claim.
C26_SingleClaim ==
    /\ [](\A t \in AllTasks : Cardinality(Claimants(t)) <= 1)
    /\ [](\A w \in Workers : wpc[w] \in {"deliver", "delete"} => wtask[w] \in issue_delivery_queue)
    /\ [][\A w \in Workers :
            (dequeue_task(w) /\ wpc'[w] = "deliver") =>
                /\ Claimants(wtask'[w]) = {}
                /\ wtask'[w] \in issue_delivery_queue]_vars
    /\ [][outbox' # outbox =>
            \E w \in Workers :
                /\ wpc[w] = "deliver" /\ wpc'[w] = "delete"
                /\ wtask'[w] = wtask[w]
                /\ Claimants(wtask[w]) = {w}
                /\ outbox' = send_email(outbox, wtask[w].subscriber_email, "t1",
                                        <<"worker", wtask[w].newsletter_issue_id>>, 0, TRUE)
                /\ issue_delivery_queue' = issue_delivery_queue]_vars
    /\ [][\A t \in issue_delivery_queue \ issue_delivery_queue' :
            \E w \in Workers :
                /\ Claimants(t) = {w}
                /\ wpc[w] = "delete"
                /\ wpc'[w] = "dequeue"
                /\ wtask'[w] = NoTask
                /\ issue_delivery_queue' = issue_delivery_queue \ {t}]_vars

C26_Witness ==
    /\ wpc[1] = "delete"
    /\ wpc[2] = "deliver"
    /\ wtask[1] # wtask[2]
    /\ Cardinality(issue_delivery_queue) = 2
    /\ BagCardinality(outbox) >= 1

\* A database call of the worker's iteration fails, or its process dies.
Fails(w) == infrastructure_error(w) \/ crash(w)

\* C27: when a worker that has claimed a task fails or crashes before
\* delete_task commits, nothing of its transaction remains: the row is still in
\* the queue, no worker holds a claim on it, and every worker that dequeues
\* next may take it; the worker itself goes on with a new iteration.
C27_RollbackOnFailure ==
    /\ [][\A w \in Workers :
            (Fails(w) /\ wpc[w] \in {"deliver", "delete"}) =>
                /\ wtask[w] \in issue_delivery_queue'
                /\ issue_delivery_queue' = issue_delivery_queue
                /\ \A v \in Workers :
                      ~(wpc'[v] \in {"deliver", "delete"} /\ wtask'[v] = wtask[w])
                /\ wpc'[w] \in {"sleep", "dequeue"}
                /\ outbox' = outbox]_vars
    /\ [](\A t \in issue_delivery_queue : \A w \in Workers :
            (Claimants(t) = {} /\ wpc[w] = "dequeue") =>
                /\ t \in available_tasks(w)
                /\ ENABLED (dequeue_task(w) /\ wtask'[w] = t))

C27_Witness ==
    /\ faults >= 1
    /\ \E t \in AllTasks :
          /\ WorkerSends(t) = 2
          /\ t \notin issue_delivery_queue
          /\ Claimants(t) = {}

(***************************************************************************)
(* Properties of one iteration of the worker.                              *)
(***************************************************************************)
\* Requests the transport received from the workers for the task t and
\* answered with a failure.
FailedWorkerSends(t) ==
    SumCopies(outbox, {m \in BagToSet(outbox) :
        m.via = <<"worker", t.newsletter_issue_id>> /\ m.to = t.subscriber_email /\ ~m.ok})

C30_LoopForever ==
    /\ [](\A w \in Workers :
            /\ wpc[w] \in {"dequeue", "deliver", "delete", "sleep"}
            /\ ENABLED worker_loop(w)
            /\ (wpc[w] = "sleep") <=> (wsleep[w] > 0)
            /\ (wpc[w] = "dequeue" /\ available_tasks(w) = {}) =>
                  ENABLED (dequeue_task(w) /\ wpc'[w] = "sleep" /\ wsleep'[w] = 10))
    /\ [][\A w \in Workers :
            delete_task(w) => (wpc'[w] = "dequeue" /\ wsleep'[w] = 0)]_vars
    /\ [][\A w \in Workers :
            (dequeue_task(w) /\ available_tasks(w) = {}) =>
                /\ wpc'[w] = "sleep"
                /\ wsleep'[w] = 10
                /\ UNCHANGED <<outbox, wtask, faults>>
                /\ UNCHANGED dbVars
                /\ \A v \in Workers \ {w} : wpc'[v] = wpc[v] /\ wsleep'[v] = wsleep[v]]_vars
    /\ [][\A w \in Workers :
            infrastructure_error(w) =>
                /\ wpc'[w] = "sleep"
                /\ wsleep'[w] = 1]_vars
    /\ [][\A w \in Workers :
            (wpc[w] = "sleep" /\ wpc'[w] # "sleep") =>
                /\ wpc'[w] = "dequeue"
                /\ wsleep'[w] = 0]_vars

C30_Witness ==
    /\ issue_delivery_queue = {}
    /\ wsleep[1] = 10
    /\ wsleep[2] = 1
    /\ BagCardinality(outbox) >= 1

(***************************************************************************)
(* Properties of the idempotency records.                                  *)
(***************************************************************************)
\* The request holds the in-flight slot of its (user_id, key): the transaction
\* try_processing handed to the handler is open.
HoldsSlot(r) == tx[r] # {}

SlotHolders(user_id, key) == {r \in Requests : RowsOf(tx[r], user_id, key) # {}}

\* C31: at any instant at most one request holds StartProcessing for a
\* (user_id, key), and only while its handler runs; try_processing answers
\* StartProcessing exactly when its INSERT affected a row, and it then holds the
\* inserted row; the slot is given up in one step that ends the request, either
\* the commit of save_response, which stores the response, or a rollback, which
\* leaves the table as it was.
C31_InsertIsMutex ==
    /\ [](\A u \in Users : \A k \in Keys : Cardinality(SlotHolders(u, k)) <= 1)
    /\ [](\A r \in Requests :
            /\ HoldsSlot(r) <=> (pc[r] \in {"get_confirmed_subscribers", "send_email"})
            /\ HoldsSlot(r) =>
                  /\ next_action[r] = "StartProcessing"
                  /\ tx[r] = {KeyRow(req[r].user_id, req[r].idempotency_key)})
    /\ [][\A r \in Requests :
            try_processing(r) =>
                LET n == n_inserted_rows(idempotency, req[r].user_id, req[r].idempotency_key)
                IN  /\ (next_action'[r] = "StartProcessing") <=> (n = 1)
                    /\ (next_action'[r] = "ReturnSavedResponse") <=> (n = 0)
                    /\ HoldsSlot(r)' <=> (n = 1)
                    /\ SlotHolders(req[r].user_id, req[r].idempotency_key) = {}]_vars
    /\ [][\A r \in Requests :
            (HoldsSlot(r) /\ ~HoldsSlot(r)') =>
                /\ pc'[r] = "done"
                /\ \/ /\ response'[r].status = 303
                      /\ idempotency' = save_response(idempotency, tx[r], req[r].user_id,
                                                      req[r].idempotency_key, response'[r])
                      /\ get_saved_response(idempotency', req[r].user_id,
                                            req[r].idempotency_key) # {}
                   \/ /\ response'[r].status \in {408, 500}
                      /\ idempotency' = idempotency]_vars
    /\ [][\A r \in Requests : pc[r] = "done" => (pc'[r] = "done" /\ ~HoldsSlot(r)')]_vars

C31_Witness ==
    \E r \in Requests : \E q \in Requests \ {r} :
        /\ SameKey(r, q)
        /\ pc[r] = "done"
        /\ next_action[r] = "StartProcessing"
        /\ response[r].status = 408
        /\ HoldsSlot(q)
        /\ pc[q] = "send_email"

\* The record of the table for the user and key of the request.
RecordOf(r) == RowsOf(idempotency, req[r].user_id, req[r].idempotency_key)

\* The response columns of the record hold a response.
Populated(x) == x.response_status_code # NullStatus

\* C32: when the INSERT of try_processing does nothing because a record of
\* (user_id, key) exists, a record with populated response columns yields
\* ReturnSavedResponse with the stored status, headers and body; a record whose
\* response columns are NULL yields an error (the handler answers 500), never
\* StartProcessing and never a response built from the NULL columns; in both
\* cases nothing is sent and the table is unchanged.
C32_ExistingRecord ==
    [][\A r \in Requests :
        (try_processing(r) /\ RecordOf(r) # {}) =>
            LET x == CHOOSE y \in RecordOf(r) : TRUE
            IN  /\ IF Populated(x)
                   THEN /\ next_action'[r] = "ReturnSavedResponse"
                        /\ response'[r] =
                              WithFlash([status |-> x.response_status_code,
                                         headers |-> headers_from_records(x.response_headers),
                                         body |-> x.response_body])
                   ELSE /\ next_action'[r] = "Err"
                        /\ response'[r] = StatusOnly(500)
                /\ pc'[r] = "done"
                /\ tx'[r] = {}
                /\ UNCHANGED <<idempotency, outbox>>]_vars

C32_Witness ==
    \E r \in Requests : \E q \in Requests \ {r} :
        /\ pc[r] = "done" /\ pc[q] = "done"
        /\ next_action[r] = "Err"
        /\ RecordOf(r) = {KeyRow(req[r].user_id, req[r].idempotency_key)}
        /\ next_action[q] = "ReturnSavedResponse"
        /\ response[q].status = 200

(***************************************************************************)
(* Properties of the life of a subscriber.                                 *)
(***************************************************************************)
\* C33: a subscriber row is created with status pending_confirmation; the only
\* change ever made to a row is pending_confirmation to confirmed, made by a
\* confirm request; a confirmed row stays confirmed; and no row is ever removed
\* or replaced.
C33_StatusMovesForward ==
    /\ [](\A i \in DOMAIN subscriptions :
            subscriptions[i].status \in {"pending_confirmation", "confirmed"})
    /\ [][/\ Len(subscriptions') \in {Len(subscriptions), Len(subscriptions) + 1}
          /\ \A i \in DOMAIN subscriptions' \ DOMAIN subscriptions :
                subscriptions'[i].status = "pending_confirmation"
          /\ \A i \in DOMAIN subscriptions :
                /\ subscriptions'[i].email = subscriptions[i].email
                /\ subscriptions'[i].name = subscriptions[i].name
                /\ subscriptions[i].status = "confirmed" => subscriptions'[i].status = "confirmed"
                /\ subscriptions'[i].status # subscriptions[i].status =>
                      /\ subscriptions[i].status = "pending_confirmation"
                      /\ subscriptions'[i].status = "confirmed"
                      /\ \E token \in IssuedTokens :
                            /\ confirm(token)
                            /\ get_subscriber_id_from_token(token) = {i}]_vars

C33_Witness ==
    /\ Len(subscriptions) = 2
    /\ subscriptions[1].status = "confirmed"
    /\ subscriptions[2].status = "pending_confirmation"
    /\ reply.status = 200

(***************************************************************************)
(* Properties of the credentials check and of the login handler.           *)
(***************************************************************************)
\* The rows of the users table with the username.
Known(username) == {u \in users : u.username = username}

\* The hash is a PHC string of Argon2id.
WellFormed(hash) == hash[1] = "$argon2id$v=19$m=15000,t=2,p=1"

\* The outcome the claim gives for the credentials.
ExpectedOutcome(username, password) ==
    IF Known(username) = {}
    THEN IF FallbackHash = compute_password_hash(password)
         THEN "UnknownUsername" ELSE "InvalidPassword"
    ELSE LET u == CHOOSE x \in Known(username) : TRUE
         IN  IF ~WellFormed(u.password_hash) THEN "FailedToGetExpectedHash"
             ELSE IF u.password_hash = compute_password_hash(password) THEN "Ok"
             ELSE "InvalidPassword"

\* C34: validate_credentials answers InvalidPassword when the verification
\* fails, for known and unknown usernames alike, UnknownUsername when the
\* verification succeeds for a username that was not found, the user's id when
\* it succeeds for a username that was found, and FailedToGetExpectedHash for a
\* stored hash that is malformed; a user id is returned only for an existing
\* username whose stored hash verifies the password, and only then does a login
\* reach /admin/dashboard.
C34_OutcomeMapping ==
    /\ \A c \in CredentialInputs :
          LET validated == validate_credentials(users, c.username, c.password, TRUE)
          IN  /\ validated.result = ExpectedOutcome(c.username, c.password)
              /\ validated.user_id # "" <=> validated.result = "Ok"
              /\ validated.result = "Ok" =>
                    \E u \in users :
                        /\ u.username = c.username
                        /\ u.user_id = validated.user_id
                        /\ u.password_hash = compute_password_hash(c.password)
    /\ \A i \in DOMAIN login_log :
          LET expected == ExpectedOutcome(login_log[i].username, login_log[i].password)
          IN  /\ Location(login_log[i].response) = "/admin/dashboard" <=> expected = "Ok"
              /\ expected \in {"InvalidPassword", "UnknownUsername"} =>
                    login_log[i].response = login_redirect("AuthError")
              /\ expected = "FailedToGetExpectedHash" =>
                    login_log[i].response = login_redirect("Unexpected")

C34_Witness ==
    \E i \in DOMAIN login_log : \E j \in DOMAIN login_log :
        /\ login_log[i].username = "legacy"
        /\ login_log[i].password = "legacy-pw-0001"
        /\ login_log[i].response = login_redirect("Unexpected")
        /\ login_log[j].username = "ghost"
        /\ login_log[j].password = FallbackPassword
        /\ login_log[j].response = login_redirect("AuthError")

\* The positions of the steps with the name in the trace of attempt i.
StepsNamed(i, name) ==
    {k \in DOMAIN login_log[i].trace : login_log[i].trace[k].name = name}

\* The attempt was answered with the redirect to the dashboard.
Successful(i) == Location(login_log[i].response) = "/admin/dashboard"

\* C35: in every successful login the handler calls regenerate once, then
\* insert_user_id once with the user id validate_credentials returned, both
\* after the last step of validate_credentials, and builds the 303 to
\* /admin/dashboard last; the session then holds that user id.
C35_RegenerateThenInsert ==
    /\ [](\A i \in DOMAIN login_log :
            Successful(i) =>
                LET trace == login_log[i].trace
                    validated == validate_credentials(users, login_log[i].username,
                                                      login_log[i].password, login_log[i].db_ok)
                IN  \E a \in DOMAIN trace : \E b \in DOMAIN trace : \E c \in DOMAIN trace :
                        /\ StepsNamed(i, "Session::regenerate") = {a}
                        /\ StepsNamed(i, "Session::insert_user_id") = {b}
                        /\ StepsNamed(i, "Response") = {c}
                        /\ Len(login_log[i].steps) < a /\ a < b /\ b < c /\ c = Len(trace)
                        /\ SubSeq(trace, 1, Len(login_log[i].steps)) = login_log[i].steps
                        /\ validated.result = "Ok"
                        /\ trace[b].params = <<validated.user_id>>
                        /\ trace[c].params = <<303, "/admin/dashboard">>)
    /\ [][(Len(login_log') > Len(login_log) /\ Successful(Len(login_log))') =>
            \E u \in users :
                /\ u.username = login_log'[Len(login_log')].username
                /\ get_user_id(session') = {u.user_id}
                /\ session' = {<<"user_id", u.user_id>>}]_vars

C35_Witness ==
    /\ Len(login_log) = 2
    /\ Successful(1) /\ login_log[1].username = "admin"
    /\ Successful(2) /\ login_log[2].username = "editor"
    /\ get_user_id(session) = {"u2"}

\* The step is a login that was answered with the redirect to the dashboard.
SuccessfulLogin ==
    /\ Len(login_log') = Len(login_log) + 1
    /\ Location(login_log'[Len(login_log')].response) = "/admin/dashboard"

\* C36: a successful login discards the state of the session and replaces its
\* id: the id of the record the client presented before the login names no
\* record afterwards.
C36_RegenerateReplacesId ==
    [][(SuccessfulLogin /\ session_id # 0) =>
            /\ session' = {<<"user_id", CHOOSE id \in get_user_id(session') : TRUE>>}
            /\ session_id' # session_id]_vars

\* The committed records and the open transactions that belong to the user
\* and key of the request.
OwnRecords(r) ==
    {x \in idempotency :
        x.user_id = req[r].user_id /\ x.idempotency_key = req[r].idempotency_key}

OwnInFlight(r) ==
    {q \in Requests \ {r} :
        \E x \in tx[q] :
            x.user_id = req[r].user_id /\ x.idempotency_key = req[r].idempotency_key}

\* C37: the records are scoped per user.  A request waits in try_processing
\* only for an open transaction of its own user and key; it gets
\* StartProcessing exactly when its own user has no record for the key,
\* whatever other users stored or hold under the same key; a saved response it
\* returns is the one stored for its own user; and the request that got
\* StartProcessing sends to the subscribers itself and stores its own record
\* without touching the records of other users.
C37_ScopedPerUser ==
    /\ [](\A r \in Requests :
            (pc[r] = "try_processing" /\ OwnInFlight(r) = {}) => ENABLED try_processing(r))
    /\ [][\A r \in Requests :
            try_processing(r) =>
                /\ (next_action'[r] = "StartProcessing") <=> (OwnRecords(r) = {})
                /\ next_action'[r] = "ReturnSavedResponse" =>
                      \E x \in OwnRecords(r) :
                          /\ response'[r].status = x.response_status_code
                          /\ response'[r].body = x.response_body]_vars
    /\ [][\A r \in Requests :
            finish_publish(r) =>
                /\ \A x \in idempotency : x \in idempotency'
                /\ \A s \in snapshot[r] : PublishSends({r}, s, {TRUE}) = 1
                /\ \E x \in idempotency' \ idempotency :
                      /\ idempotency' = idempotency \cup {x}
                      /\ x.user_id = req[r].user_id
                      /\ x.idempotency_key = req[r].idempotency_key
                      /\ x.response_status_code = 303]_vars

C37_Witness ==
    \E r \in Requests : \E q \in Requests \ {r} :
        /\ req[r].user_id # req[q].user_id
        /\ req[r].idempotency_key = req[q].idempotency_key
        /\ Original(r) /\ Original(q)
        /\ snapshot[q] # {}
        /\ Cardinality(idempotency) = 2

\* C38: every committed idempotency record holds a complete response that
\* get_saved_response can read, and there is one record per (user_id, key); a
\* record becomes visible only in the step that commits it together with its
\* response; a request that held the slot and ended otherwise left nothing
\* behind; so a request that finds a record of its user and key is answered
\* with the saved response and never with an error.
C38_NoNullRecordCommitted ==
    /\ [](\A x \in idempotency :
            /\ Populated(x)
            /\ x.response_status_code = 303
            /\ x.response_headers # <<>>
            /\ get_saved_response(idempotency, x.user_id, x.idempotency_key) # {}
            /\ \A y \in idempotency :
                  (y.user_id = x.user_id /\ y.idempotency_key = x.idempotency_key) => y = x)
    /\ [][idempotency' # idempotency =>
            \E r \in Requests :
                /\ finish_publish(r)
                /\ response'[r].status = 303
                /\ tx[r] = {KeyRow(req[r].user_id, req[r].idempotency_key)}
                /\ tx'[r] = {}]_vars
    /\ [](\A r \in Requests :
            (pc[r] = "done" /\ next_action[r] = "StartProcessing" /\ response[r].status # 303) =>
                (tx[r] = {} /\ (OwnRecords(r) = {} \/ \E q \in Requests \ {r} : SameKey(r, q) /\ Original(q))))
    /\ [](\A r \in Requests : next_action[r] # "Err")

C38_Witness ==
    \E r \in Requests : \E q \in Requests \ {r} :
        /\ SameKey(r, q)
        /\ pc[q] = "done" /\ next_action[q] = "StartProcessing" /\ response[q].status = 500
        /\ Original(r)
        /\ OwnRecords(r) # {}

(***************************************************************************)
(* Properties of the change of a password.                                 *)
(***************************************************************************)
\* The stored hash of the user is the hash of the password.
IsPasswordOf(user_id, password) ==
    \E u \in users : u.user_id = user_id /\ u.password_hash = compute_password_hash(password)

\* C39: a change-password request of a logged-in user is decided by the first
\* failing check in the order: the two new passwords are equal, the current
\* password is the user's, the new password has an accepted length.  Each
\* rejection answers 303 to /admin/password with the message of that check
\* and leaves the users table unchanged; the hash is written only when all
\* three checks passed.
C39_RejectedChangeKeepsHash ==
    [][\A sid \in SessionIdInputs : \A form \in ChangePasswordForms :
        ( /\ ~Unauthenticated(sid)
          /\ admin_change_password(sid, form.current_password, form.new_password,
                                   form.new_password_check) ) =>
            LET user_id == CHOOSE id \in get_user_id(session_data(sid)) : TRUE
                matching == form.new_password = form.new_password_check
                current == IsPasswordOf(user_id, form.current_password)
                accepted == 12 <= Len(form.new_password) /\ Len(form.new_password) <= 128
            IN  /\ reply'.status = 303
                /\ Location(reply') = "/admin/password"
                /\ IF ~matching
                   THEN /\ users' = users
                        /\ reply'.headers[2] = <<"set-cookie", "_flash_=You entered two different new passwords - the field values must match.">>
                   ELSE IF ~current
                   THEN /\ users' = users
                        /\ reply'.headers[2] = <<"set-cookie", "_flash_=The current password is incorrect.">>
                   ELSE IF ~accepted
                   THEN /\ users' = users
                        /\ reply'.headers[2] = <<"set-cookie", "_flash_password_requirements=Password must be at least 12 characters long">>
                   ELSE /\ IsPasswordOf(user_id, form.new_password)'
                        /\ reply'.headers[2] = <<"set-cookie", "_flash_=Your password has been changed.">>
                /\ users' # users => (matching /\ current /\ accepted)]_vars

C39_Witness ==
    /\ get_user_id(session) = {"u1"}
    /\ IsPasswordOf("u1", NewPassword)
    /\ reply = FlashRedirect("/admin/password", "",
                  "You entered two different new passwords - the field values must match.")

\* The last attempt of the log that was answered with the redirect to the
\* dashboard, 0 if there is none.
LastSuccessful ==
    LET S == {i \in DOMAIN login_log : Successful(i)}
    IN  IF S = {} THEN 0 ELSE CHOOSE i \in S : \A j \in S : j <= i

====
